---- MODULE Spec2Model ----
(***************************************************************************)
(* Model of the lawdit document indexing pipeline                          *)
(* (src/src/lawdit/indexer/data_room_indexer.py and its collaborators).    *)
(*                                                                         *)
(* Text is modelled as a sequence of atoms (short strings): an f-string is *)
(* the concatenation of its pieces, "\n".join is concatenation with the    *)
(* atom "\n" in between.  A file name is a sequence of one-character       *)
(* atoms, so that the slug computation acts on characters.                 *)
(*                                                                         *)
(* Specifications:                                                         *)
(*   Spec       one run of cli.main / build_data_room_index                *)
(*   SpecDoc    one direct call of process_document                        *)
(*   SpecRuns   successive runs on one working directory and output path   *)
(*   SpecStore  process_document, then DocumentStore._load_documents       *)
(*   SpecConc   DocumentStore._load_documents during process_document      *)
(*   SpecRaster direct calls of PDFProcessor.extract_pages_as_images       *)
(*   SpecList   build_data_room_index over a listing served in pages       *)
(*   SpecAgree  build_data_room_index, then a DocumentStore over its root  *)
(*   SpecTools  the process-wide document store and the retrieval calls    *)
(*   SpecWeb    the indexer page of the web application (run_indexing)     *)
(***************************************************************************)
EXTENDS Integers, Sequences, FiniteSets, TLC

\* ------------------------------------------------------------------ bounds
MaxFiles == 2

MaxPages == 3

\* Number of successive runs of build_data_room_index.
MaxRuns == 2

\* Page counts of the sources served by the drive in a whole-folder run
\* (a source that cannot be rasterized is a failure of the rasterizer).
RunPageCounts == {1}

\* ------------------------------------------------------ program constants
PDF_MIME == "application/pdf"

WORKSPACE_MIMES ==
  { "application/vnd.google-apps.document",
    "application/vnd.google-apps.spreadsheet",
    "application/vnd.google-apps.presentation" }

\* A mime type the code does not recognise.
OTHER_MIME == "video/mp4"

MimeTypes == {PDF_MIME} \cup WORKSPACE_MIMES \cup {OTHER_MIME}

\* Mime types of the descriptors of a whole-folder run.
RunMimeTypes == {PDF_MIME, OTHER_MIME}

\* Drive file ids (distinct within one listing).
IdSet == { <<"F1">>, <<"F2">>, <<"F3">> }

\* Display names: the first two differ and sanitise to the same slug.
NameSet == { <<"a", " ", "b">>, <<"a", "_", "b">>, <<"c">> }

DocNameSet == NameSet \cup { <<"a", "/", "b">> }

\* ------------------------------------------------------------------ values
None == [none |-> TRUE]

NoFile == [state |-> "absent"]

\* ------------------------------------------------------------------ helpers
RECURSIVE Flatten(_)
Flatten(seqs) ==
  IF seqs = <<>> THEN <<>> ELSE Head(seqs) \o Flatten(Tail(seqs))

RECURSIVE Join(_, _)
\* sep.join(lines)
Join(sep, lines) ==
  IF lines = <<>> THEN <<>>
  ELSE IF Len(lines) = 1 THEN lines[1]
  ELSE lines[1] \o sep \o Join(sep, Tail(lines))

Range(s) == { s[i] : i \in DOMAIN s }

\* file_name.replace(" ", "_").replace("/", "_")
Slug(file_name) ==
  [ i \in DOMAIN file_name |->
      IF file_name[i] = " " THEN "_"
      ELSE IF file_name[i] = "/" THEN "_"
      ELSE file_name[i] ]

DigitChars == <<"0", "1", "2", "3", "4", "5", "6", "7", "8", "9">>

RECURSIVE Digits(_)
\* The decimal digits of a natural number, most significant first.
Digits(n) ==
  IF n < 10 THEN << DigitChars[n + 1] >>
  ELSE Digits(n \div 10) \o << DigitChars[(n % 10) + 1] >>

\* Minimum field width of the page number in a page image's file name.
PAD_WIDTH == 4

RECURSIVE ZeroPad(_, _)
\* format(n, "0<width>d"): zeros in front up to the minimum width, never a cut
ZeroPad(digits, width) ==
  IF Len(digits) >= width THEN digits ELSE ZeroPad(<<"0">> \o digits, width)

\* f"page_{page_num:04d}.png"
PageFileName(page_num) ==
  <<"page_">> \o ZeroPad(Digits(page_num), PAD_WIDTH) \o <<".", "png">>

\* os.path.join(output_dir, f"page_{page_num:04d}.png"), output_dir being
\* <working_dir>/<doc_slug>/pages
ImagePath(doc_slug, page_num) ==
  doc_slug \o <<"/", "pages", "/">> \o PageFileName(page_num)

\* ------------------------------------------------------------------- state
VARIABLES
  folder,            \* the drive folder: sequence of [id, name, mimeType, pages]
  files,             \* build_data_room_index: the listing returned by the drive client
  pc,                \* position in build_data_room_index / process_document
  idx,               \* enumerate(files, start=1): index of the current descriptor
  document_records,  \* build_data_room_index: records collected so far
  record,            \* value returned by the last process_document call
  doc,               \* process_document arguments [file_id, file_name, mime_type]
  image_paths,       \* process_document local
  page_summaries,    \* process_document local
  document_summary,  \* process_document local
  calls,             \* collaborator calls made by the current invocation, in order
  fs,                \* working root: doc_slug -> directory content
  index_file,        \* the file at output_path
  index_text,        \* value returned by build_data_room_index
  passed,            \* history: indices of the descriptors passed to process_document
  outcomes,          \* history: how each process_document invocation ended
  tree_before,       \* history: the directories when the current invocation began
  documents,         \* DocumentStore.documents: doc_id -> loaded record
  load_pc,           \* position in DocumentStore._load_documents
  pending,           \* _load_documents: subdirectories the glob has still to visit
  observed,          \* history: the sidecar files _load_documents has opened
  load_after,        \* history: <<pc, idx>> of process_document when the load began
  first,             \* history: record and sidecar left by the first invocation
  exit_code,         \* cli.main: <<status>> once the process has exited, <<>> before
  listing,           \* history: outcome of the folder listing request
  run,               \* history: number of the current build_data_room_index run
  index_before,      \* history: the file at output_path when the current run began
  r_pc,              \* position of a direct call of extract_pages_as_images
  r_images,          \* extract_pages_as_images: number of pages of the source
  r_fail_at,         \* history: the page at which the call failed, 0 if none
  r_files,           \* page numbers of the image files in output_dir
  r_result,          \* value returned by extract_pages_as_images
  l_pc,              \* position in GoogleDriveClient.list_folder_contents
  l_pages,           \* the drive's answer to the listing, page by page
  l_results,         \* list_folder_contents local: the last response
  l_files,           \* list_folder_contents local: the files collected so far
  l_requests,        \* history: the pageToken of each request made, in order
  l_failed,          \* history: number of the request that failed, 0 if none
  g_store,           \* document_tools._document_store: None or a DocumentStore
  g_log,             \* history: the initialize calls and resets of g_store
  t_call,            \* history: the last call made on the store or a tool
  t_parts,           \* get_document_pages local: result_parts
  t_result,          \* value returned, or exception raised, by the last call
  w_pc,              \* position in web.pages.indexer: show / run_indexing
  indexing_in_progress, \* st.session_state.indexing_in_progress, <<>> if unset
  w_index_file,      \* st.session_state.index_file is set
  w_disabled,        \* the disabled argument of the last rendered start button
  w_exits            \* history: how each run_indexing call ended

\* DocumentStore
store_vars == << documents, load_pc, pending, observed, load_after >>

\* A repeated call of process_document
again_vars == << first >>

\* cli.main
cli_vars == << exit_code, listing >>

\* Successive runs of build_data_room_index
run_vars == << run, index_before >>

\* PDFProcessor.extract_pages_as_images
raster_vars == << r_pc, r_images, r_fail_at, r_files, r_result >>

\* GoogleDriveClient.list_folder_contents
list_vars == << l_pc, l_pages, l_results, l_files, l_requests, l_failed >>

\* The process-wide document store and the calls made on it
tool_vars == << g_store, g_log, t_call, t_parts, t_result >>

\* The indexer page of the web application
web_vars == << w_pc, indexing_in_progress, w_index_file, w_disabled, w_exits >>

more_vars == << list_vars, tool_vars, web_vars >>

\* The state of DataRoomIndexer and of the working directory
core_vars ==
  << folder, files, pc, idx, document_records, record, doc, image_paths,
     page_summaries, document_summary, calls, fs, index_file, index_text,
     passed, outcomes, tree_before >>

aux_vars ==
  << store_vars, again_vars, cli_vars, run_vars, raster_vars, more_vars >>

vars ==
  << folder, files, pc, idx, document_records, record, doc, image_paths,
     page_summaries, document_summary, calls, fs, index_file, index_text,
     passed, outcomes, tree_before, aux_vars >>

\* ------------------------------------------------------------- file system
EmptyDir ==
  [ pdf |-> NoFile, pages_dir |-> FALSE, images |-> {}, sidecar |-> NoFile ]

\* Path.mkdir(parents=True, exist_ok=True)
MkDir(tree, doc_slug) ==
  IF doc_slug \in DOMAIN tree THEN tree
  ELSE [ s \in DOMAIN tree \cup {doc_slug} |->
           IF s = doc_slug THEN EmptyDir ELSE tree[s] ]

\* The directories under the working root.
DirTree(tree) ==
  { <<s>> : s \in DOMAIN tree }
    \cup { <<s, "pages">> : s \in { d \in DOMAIN tree : tree[d].pages_dir } }

\* One collaborator call of process_document: ok is the truth value of the
\* call's result (for a summarizer: that the model call did not fail).
Call(op, page, ok, arg, ret) ==
  [op |-> op, page |-> page, ok |-> ok, arg |-> arg, ret |-> ret]

SetDir(tree, doc_slug, field, value) ==
  [tree EXCEPT ![doc_slug] = [tree[doc_slug] EXCEPT ![field] = value]]

\* OpenForWrite with mode "a": what the file holds is kept.
OpenForWrite_Append(file, who) ==
  IF file.state = "absent" THEN [state |-> "partial", writer |-> who]
  ELSE [state |-> "partial", writer |-> who, kept |-> TRUE]

\* open(path, "w"): the file is created, or truncated to nothing.  A file in
\* state "partial" holds a proper prefix of a JSON document.
OpenForWrite(file, who) == [state |-> "partial", writer |-> who]

\* json.dump(value, f) and the close of f: the text of value follows what the
\* open left in the file; two JSON documents in a row are no JSON document.
DumpJson(file, who, value) ==
  IF "kept" \in DOMAIN file THEN [state |-> "garbled", writer |-> who]
  ELSE [state |-> "complete", writer |-> who, content |-> value]

\* ------------------------------------------------------------ collaborators
\* A collaborator result: the value returned, or an exception raised.
Returned(value) == [raised |-> FALSE, value |-> value]

Raised == [raised |-> TRUE, value |-> <<>>]

\* summarize_page_image without its except clause.
SummarizePageImage_Raising(image_path, page_number, api_ok) ==
  IF api_ok THEN Returned(<<"page text">>) ELSE Raised

\* VisionSummarizer.summarize_page_image: api_ok says whether reading the
\* image and the model call succeed; the except clause turns a failure into
\* the sentinel text.
SummarizePageImage(image_path, page_number, api_ok) ==
  IF api_ok THEN Returned(<<"page text">>)
  ELSE Returned(<<"Error processing page ", ToString(page_number)>>)

\* summarize_document_from_pages without its except clause.
SummarizeDocumentFromPages_Raising(summaries, document_name, api_ok) ==
  IF api_ok THEN Returned(<<"document text">>) ELSE Raised

\* VisionSummarizer.summarize_document_from_pages
SummarizeDocumentFromPages(summaries, document_name, api_ok) ==
  IF api_ok THEN Returned(<<"document text">>)
  ELSE Returned(<<"Error summarizing document ">> \o document_name)

\* extract_pages_as_images with an except clause that returns image_paths.
ExtractPagesAsImages_Partial(doc_slug, n, fail_at) ==
  IF fail_at = 0 THEN [ i \in 1..n |-> ImagePath(doc_slug, i) ]
  ELSE [ i \in 1..(fail_at - 1) |-> ImagePath(doc_slug, i) ]

\* PDFProcessor.extract_pages_as_images on a source of n pages; fail_at = 0
\* when nothing fails, fail_at = k when the save of page k fails (k = 1 also
\* stands for a failure of the directory creation or of the conversion,
\* before any page is saved): the except clause then returns the empty list.
ExtractPagesAsImages(doc_slug, n, fail_at) ==
  IF fail_at = 0 THEN [ i \in 1..n |-> ImagePath(doc_slug, i) ] ELSE <<>>

\* The page images on disk after extract_pages_as_images.
SavedImages(n, fail_at) ==
  IF fail_at = 0 THEN 1..n ELSE 1..(fail_at - 1)

\* AcquireKind without the branch for unrecognised types.
AcquireKind_ExportAll(mime_type) ==
  IF mime_type = PDF_MIME THEN "download_file" ELSE "export_as_pdf"

\* How process_document acquires the source for a mime type.
AcquireKind(mime_type) ==
  IF mime_type = PDF_MIME THEN "download_file"
  ELSE IF mime_type \in WORKSPACE_MIMES THEN "export_as_pdf"
  ELSE "unsupported"

\* Pages of the source the drive serves for a file id.
SourcePages(file_id) ==
  LET d == CHOOSE d \in Range(folder) : d.id = file_id IN d.pages

\* --------------------------------------------------------- process_document
DocSlug == Slug(doc.file_name)

\* NextPageNum with enumerate starting at 0.
NextPageNum_FromZero(summaries) == Len(summaries)

\* enumerate(image_paths, start=1): the page number of the next page
NextPageNum(summaries) == Len(summaries) + 1

PageEntry(page_num, summary, image_path) ==
  [page_num |-> page_num, summary |-> summary, image_path |-> image_path]

DocumentRecord(file_id, file_name, mime_type, summaries, summary) ==
  [ doc_id |-> file_id,
    file_name |-> file_name,
    mime_type |-> mime_type,
    total_pages |-> Len(summaries),
    document_summary |-> summary,
    pages |-> summaries ]

\* The record as dumped to document_record.json: image_path removed.
RecordForJson(document_record) ==
  [ document_record EXCEPT !.pages =
      [ i \in DOMAIN document_record.pages |->
          [ page_num |-> document_record.pages[i].page_num,
            summary |-> document_record.pages[i].summary ] ] ]

\* process_document returns result; outcome names the exit taken.
Return(result, outcome) ==
  /\ record' = result
  /\ outcomes' = Append(outcomes, outcome)
  /\ pc' = "pd_done"

\* An exception leaves process_document (and its caller, which has no handler).
Raise(outcome) ==
  /\ outcomes' = Append(outcomes, outcome)
  /\ pc' = "raised_doc"
  /\ UNCHANGED record

\* Lines 65-70: the slug and the document directory.
PD_Enter ==
  /\ pc = "pd_enter"
  /\ fs' = MkDir(fs, DocSlug)
  /\ pc' = "pd_acquire"
  /\ UNCHANGED << folder, files, idx, document_records, record, doc,
                  image_paths, page_summaries, document_summary, calls,
                  index_file, index_text, passed, outcomes, tree_before, aux_vars >>

\* PD_Acquire with a failed download or export attempted a second time.
PD_Acquire_Retry ==
  /\ pc = "pd_acquire"
  /\ UNCHANGED << folder, files, idx, document_records, doc, image_paths,
                  page_summaries, document_summary, index_file, index_text,
                  passed, tree_before, aux_vars >>
  /\ IF AcquireKind(doc.mime_type) = "unsupported"
     THEN /\ Return(None, "unsupported")
          /\ UNCHANGED << calls, fs >>
     ELSE \E success \in BOOLEAN, opened \in BOOLEAN :
          /\ success => opened
          /\ calls' = Append(calls,
                        Call(AcquireKind(doc.mime_type), 0, success, <<>>, <<>>))
          /\ fs' = IF success
                   THEN SetDir(fs, DocSlug, "pdf",
                               [state |-> "complete", content |-> doc.file_id])
                   ELSE IF opened
                   THEN SetDir(fs, DocSlug, "pdf", [state |-> "partial"])
                   ELSE fs
          /\ IF success
             THEN /\ pc' = "pd_extract"
                  /\ UNCHANGED << record, outcomes >>
             ELSE IF calls = <<>>
             THEN UNCHANGED << pc, record, outcomes >>
             ELSE Return(None, "acquisition")

\* PD_Acquire without the success gate of lines 88-90.
PD_Acquire_NoGate ==
  /\ pc = "pd_acquire"
  /\ UNCHANGED << folder, files, idx, document_records, doc, image_paths,
                  page_summaries, document_summary, index_file, index_text,
                  passed, tree_before, aux_vars >>
  /\ IF AcquireKind(doc.mime_type) = "unsupported"
     THEN /\ Return(None, "unsupported")
          /\ UNCHANGED << calls, fs >>
     ELSE \E success \in BOOLEAN, opened \in BOOLEAN :
          /\ success => opened
          /\ calls' = Append(calls,
                        Call(AcquireKind(doc.mime_type), 0, success, <<>>, <<>>))
          /\ fs' = IF success
                   THEN SetDir(fs, DocSlug, "pdf",
                               [state |-> "complete", content |-> doc.file_id])
                   ELSE IF opened
                   THEN SetDir(fs, DocSlug, "pdf", [state |-> "partial"])
                   ELSE fs
          /\ pc' = "pd_extract"
          /\ UNCHANGED << record, outcomes >>

\* Lines 72-90: download or export by mime type, then the success gate.
PD_Acquire ==
  /\ pc = "pd_acquire"
  /\ UNCHANGED << folder, files, idx, document_records, doc, image_paths,
                  page_summaries, document_summary, index_file, index_text,
                  passed, tree_before, aux_vars >>
  /\ IF AcquireKind(doc.mime_type) = "unsupported"
     THEN /\ Return(None, "unsupported")
          /\ UNCHANGED << calls, fs >>
     ELSE \E success \in BOOLEAN, opened \in BOOLEAN :
          /\ success => opened
          /\ calls' = Append(calls,
                        Call(AcquireKind(doc.mime_type), 0, success, <<>>, <<>>))
          \* open(output_path, "wb") truncates; a failed transfer leaves the
          \* file incomplete.
          /\ fs' = IF success
                   THEN SetDir(fs, DocSlug, "pdf",
                               [state |-> "complete", content |-> doc.file_id])
                   ELSE IF opened
                   THEN SetDir(fs, DocSlug, "pdf", [state |-> "partial"])
                   ELSE fs
          /\ IF success
             THEN /\ pc' = "pd_extract"
                  /\ UNCHANGED << record, outcomes >>
             ELSE Return(None, "acquisition")

\* Lines 92-99: rasterize, then the empty-result gate.
PD_Extract ==
  /\ pc = "pd_extract"
  /\ UNCHANGED << folder, files, idx, document_records, doc, page_summaries,
                  document_summary, index_file, index_text, passed,
                  tree_before, aux_vars >>
  /\ LET n == SourcePages(doc.file_id) IN
     \E fail_at \in 0..n :
       /\ LET paths == ExtractPagesAsImages(DocSlug, n, fail_at) IN
          /\ image_paths' = paths
          /\ calls' = Append(calls,
                        Call("extract_pages_as_images", 0, paths # <<>>, <<>>, paths))
          /\ fs' = [fs EXCEPT ![DocSlug] =
                     [ @ EXCEPT !.pages_dir = TRUE,
                                !.images = @ \cup SavedImages(n, fail_at) ]]
          /\ IF paths = <<>>
             THEN Return(None, "rasterization")
             ELSE /\ pc' = "pd_pages"
                  /\ UNCHANGED << record, outcomes >>

\* PD_SummarizePage with each page entry inserted at the front of the list.
PD_SummarizePage_Prepend ==
  /\ pc = "pd_pages"
  /\ UNCHANGED << folder, files, idx, document_records, doc, image_paths,
                  document_summary, fs, index_file, index_text, passed,
                  tree_before, aux_vars >>
  /\ \E api_ok \in BOOLEAN :
       LET page_num == NextPageNum(page_summaries)
           image_path == image_paths[Len(page_summaries) + 1]
           r == SummarizePageImage(image_path, page_num, api_ok)
       IN
       /\ calls' = Append(calls,
                     Call("summarize_page_image", page_num, api_ok,
                          <<image_path>>, r.value))
       /\ IF r.raised
          THEN /\ Raise("page_summary_raised")
               /\ UNCHANGED page_summaries
          ELSE /\ page_summaries' =
                    <<PageEntry(page_num, r.value, image_path)>> \o page_summaries
               /\ pc' = IF Len(page_summaries) + 1 = Len(image_paths)
                        THEN "pd_docsum" ELSE "pd_pages"
               /\ UNCHANGED << record, outcomes >>

\* Lines 104-108: one iteration of the page loop.
PD_SummarizePage ==
  /\ pc = "pd_pages"
  /\ UNCHANGED << folder, files, idx, document_records, doc, image_paths,
                  document_summary, fs, index_file, index_text, passed,
                  tree_before, aux_vars >>
  /\ \E api_ok \in BOOLEAN :
       LET page_num == NextPageNum(page_summaries)
           image_path == image_paths[Len(page_summaries) + 1]
           r == SummarizePageImage(image_path, page_num, api_ok)
       IN
       /\ calls' = Append(calls,
                     Call("summarize_page_image", page_num, api_ok,
                          <<image_path>>, r.value))
       /\ IF r.raised
          THEN /\ Raise("page_summary_raised")
               /\ UNCHANGED page_summaries
          ELSE /\ page_summaries' =
                    Append(page_summaries, PageEntry(page_num, r.value, image_path))
               /\ pc' = IF Len(page_summaries) + 1 = Len(image_paths)
                        THEN "pd_docsum" ELSE "pd_pages"
               /\ UNCHANGED << record, outcomes >>

\* Lines 110-114: the document-level summary.
PD_SummarizeDocument ==
  /\ pc = "pd_docsum"
  /\ UNCHANGED << folder, files, idx, document_records, doc, image_paths,
                  page_summaries, fs, index_file, index_text, passed,
                  tree_before, aux_vars >>
  /\ \E api_ok \in BOOLEAN :
       LET r == SummarizeDocumentFromPages(page_summaries, doc.file_name, api_ok) IN
       /\ calls' = Append(calls,
                     Call("summarize_document_from_pages", 0, api_ok,
                          page_summaries, r.value))
       /\ IF r.raised
          THEN /\ Raise("document_summary_raised")
               /\ UNCHANGED document_summary
          ELSE /\ document_summary' = r.value
               /\ pc' = "pd_open"
               /\ UNCHANGED << record, outcomes >>

\* Lines 116-124
CurrentRecord ==
  DocumentRecord(doc.file_id, doc.file_name, doc.mime_type, page_summaries,
                 document_summary)

\* Lines 127-128: open(record_path, "w") creates or truncates the sidecar.
PD_OpenSidecar ==
  /\ pc = "pd_open"
  /\ UNCHANGED << folder, files, idx, document_records, doc, image_paths,
                  page_summaries, document_summary, calls, index_file,
                  index_text, passed, tree_before, aux_vars >>
  /\ \E opened \in BOOLEAN :
       IF opened
       THEN /\ fs' = SetDir(fs, DocSlug, "sidecar",
                            OpenForWrite(fs[DocSlug].sidecar, idx))
            /\ pc' = "pd_dump"
            /\ UNCHANGED << record, outcomes >>
       ELSE /\ Raise("persistence")
            /\ UNCHANGED fs

\* Lines 129-140: json.dump into the open file, then return the record.
PD_DumpSidecar ==
  /\ pc = "pd_dump"
  /\ UNCHANGED << folder, files, idx, document_records, doc, image_paths,
                  page_summaries, document_summary, calls, index_file,
                  index_text, passed, tree_before, aux_vars >>
  /\ \E written \in BOOLEAN :
       IF written
       THEN /\ fs' = SetDir(fs, DocSlug, "sidecar",
                            DumpJson(fs[DocSlug].sidecar, idx,
                                     RecordForJson(CurrentRecord)))
            /\ Return(CurrentRecord, "ok")
       ELSE /\ Raise("persistence")
            /\ UNCHANGED fs

\* ---------------------------------------------------- build_data_room_index
Descriptor(d) == [id |-> d.id, name |-> d.name, mimeType |-> d.mimeType]

\* Lines 161-164: GoogleDriveClient.list_folder_contents returns the files
\* of the folder, or the empty list when the request fails.
ListFolder ==
  /\ pc = "start"
  /\ \E listed \in BOOLEAN :
       /\ files' = IF listed THEN [ i \in DOMAIN folder |-> Descriptor(folder[i]) ]
                   ELSE <<>>
       /\ listing' = IF listed THEN "listed" ELSE "failed"
  /\ pc' = "loop"
  /\ UNCHANGED << folder, idx, document_records, record, doc, image_paths,
                  page_summaries, document_summary, calls, fs, index_file,
                  index_text, passed, outcomes, tree_before, store_vars,
                  again_vars, exit_code, run_vars, raster_vars, more_vars >>

\* ------------------------------------------- list_folder_contents, by page
\* The drive answers request k with page k of the listing and, when a
\* further page exists, the token that names it.
Response(pages, k) ==
  [ files |-> pages[k],
    nextPageToken |-> IF k < Len(pages) THEN <<k + 1>> ELSE <<>> ]

\* list_folder_contents without its while loop.
HasNextPage_Never(results) == FALSE

\* Line 93: while "nextPageToken" in results
HasNextPage(results) == results.nextPageToken # <<>>

\* An except clause that returns the files collected so far.
ListingOnError_Partial(collected) == collected

\* Lines 108-110: except Exception: print, return []
ListingOnError(collected) == <<>>

\* Lines 161-164 of build_data_room_index receive what the client returns.
ListReturn(result, how) ==
  /\ files' = result
  /\ listing' = how
  /\ pc' = "loop"
  /\ l_pc' = "returned"

\* Lines 77-90: the first request carries no page token; its files start
\* the list. A failing request is caught and the call returns.
L_First ==
  /\ pc = "start"
  /\ l_pc = "idle"
  /\ l_requests' = << <<>> >>
  /\ \E ok \in BOOLEAN :
       IF ok
       THEN /\ l_results' = Response(l_pages, 1)
            /\ l_files' = l_results'.files
            /\ l_pc' = "paging"
            /\ UNCHANGED << files, pc, listing, l_failed >>
       ELSE /\ l_failed' = 1
            /\ ListReturn(ListingOnError(<<>>), "failed")
            /\ UNCHANGED << l_results, l_files >>
  /\ UNCHANGED << folder, idx, document_records, record, doc, image_paths,
                  page_summaries, document_summary, calls, fs, index_file,
                  index_text, passed, outcomes, tree_before, store_vars,
                  again_vars, exit_code, run_vars, raster_vars, tool_vars,
                  web_vars, l_pages >>

\* Lines 93-104: one turn of the while loop: the request carries the token
\* of the last response and its files extend the list.
L_NextPage ==
  /\ l_pc = "paging"
  /\ HasNextPage(l_results)
  /\ l_requests' = Append(l_requests, l_results.nextPageToken)
  /\ \E ok \in BOOLEAN :
       IF ok
       THEN /\ l_results' = Response(l_pages, l_results.nextPageToken[1])
            /\ l_files' = l_files \o l_results'.files
            /\ UNCHANGED << files, pc, listing, l_pc, l_failed >>
       ELSE /\ l_failed' = Len(l_requests')
            /\ ListReturn(ListingOnError(l_files), "failed")
            /\ UNCHANGED << l_results, l_files >>
  /\ UNCHANGED << folder, idx, document_records, record, doc, image_paths,
                  page_summaries, document_summary, calls, fs, index_file,
                  index_text, passed, outcomes, tree_before, store_vars,
                  again_vars, exit_code, run_vars, raster_vars, tool_vars,
                  web_vars, l_pages >>

\* Lines 93, 106: the last response has no token: return files.
L_Return ==
  /\ l_pc = "paging"
  /\ ~ HasNextPage(l_results)
  /\ ListReturn(l_files, "listed")
  /\ UNCHANGED << folder, idx, document_records, record, doc, image_paths,
                  page_summaries, document_summary, calls, fs, index_file,
                  index_text, passed, outcomes, tree_before, store_vars,
                  again_vars, exit_code, run_vars, raster_vars, tool_vars,
                  web_vars, l_pages,
                  l_results, l_files, l_requests, l_failed >>

\* Lines 169-171: the next descriptor is passed to process_document.
LoopNext ==
  /\ pc = "loop"
  /\ idx < Len(files)
  /\ idx' = idx + 1
  /\ doc' = [ file_id |-> files[idx + 1].id,
              file_name |-> files[idx + 1].name,
              mime_type |-> files[idx + 1].mimeType ]
  /\ passed' = Append(passed, idx + 1)
  /\ image_paths' = <<>>
  /\ page_summaries' = <<>>
  /\ document_summary' = <<>>
  /\ calls' = <<>>
  /\ pc' = "pd_enter"
  /\ tree_before' = DirTree(fs)
  /\ UNCHANGED << folder, files, document_records, record, fs, index_file,
                  index_text, outcomes, aux_vars >>

\* LoopCollect with the loop left at the first failed document.
LoopCollect_BreakOnNone ==
  /\ pc = "pd_done"
  /\ document_records' =
       IF record # None THEN Append(document_records, record)
       ELSE document_records
  /\ pc' = IF record # None THEN "loop" ELSE "render"
  /\ UNCHANGED << folder, files, idx, record, doc, image_paths,
                  page_summaries, document_summary, calls, fs, index_file,
                  index_text, passed, outcomes, tree_before, aux_vars >>

\* LoopCollect with the record inserted at the front of the list.
LoopCollect_Prepend ==
  /\ pc = "pd_done"
  /\ document_records' =
       IF record # None THEN <<record>> \o document_records
       ELSE document_records
  /\ pc' = "loop"
  /\ UNCHANGED << folder, files, idx, record, doc, image_paths,
                  page_summaries, document_summary, calls, fs, index_file,
                  index_text, passed, outcomes, tree_before, aux_vars >>

\* Lines 172-173: a returned record is collected, None is skipped.
LoopCollect ==
  /\ pc = "pd_done"
  /\ document_records' =
       IF record # None THEN Append(document_records, record)
       ELSE document_records
  /\ pc' = "loop"
  /\ UNCHANGED << folder, files, idx, record, doc, image_paths,
                  page_summaries, document_summary, calls, fs, index_file,
                  index_text, passed, outcomes, tree_before, aux_vars >>

\* Line 169: the listing is exhausted.
LoopExit ==
  /\ pc = "loop"
  /\ idx = Len(files)
  /\ pc' = "render"
  /\ UNCHANGED << folder, files, idx, document_records, record, doc,
                  image_paths, page_summaries, document_summary, calls, fs,
                  index_file, index_text, passed, outcomes, tree_before, aux_vars >>

\* IndexLines with one entry per listed file instead of one per record.
IndexLines_AllListed(records) ==
  << <<"# Data Room Index", "\n">> >> \o
  Flatten([ i \in DOMAIN files |->
            << <<"- **">> \o files[i].id \o <<"**: ">> \o files[i].name,
               <<"  Summary: ">> \o <<"\n">> >> ])

\* Lines 180-185
IndexLines(records) ==
  << <<"# Data Room Index", "\n">> >> \o
  Flatten([ i \in DOMAIN records |->
            << <<"- **">> \o records[i].doc_id \o <<"**: ">> \o records[i].file_name,
               <<"  Summary: ">> \o records[i].document_summary \o <<"\n">> >> ])

\* Line 187
IndexText(records) == Join(<<"\n">>, IndexLines(records))

\* WriteText with the file opened in mode "a".
WriteText_Append(file, text) ==
  IF file.state = "complete"
  THEN [state |-> "complete", content |-> file.content \o text]
  ELSE [state |-> "complete", content |-> text]

\* Lines 192-193: open(output_path, "w") and f.write(text): the file holds
\* the text and nothing of what it held before.
WriteText(file, text) == [state |-> "complete", content |-> text]

\* Lines 175-199: render, write to output_path, return the text.
RenderAndSave ==
  /\ pc = "render"
  /\ \E opened \in BOOLEAN, written \in BOOLEAN :
       /\ written => opened
       /\ index_file' = IF written
                        THEN WriteText(index_file, IndexText(document_records))
                        ELSE IF opened THEN [state |-> "partial"]
                        ELSE index_file
       /\ IF written
          THEN /\ index_text' = IndexText(document_records)
               /\ pc' = "done"
          ELSE /\ pc' = "raised_index"
               /\ UNCHANGED index_text
  /\ UNCHANGED << folder, files, idx, document_records, record, doc,
                  image_paths, page_summaries, document_summary, calls, fs,
                  passed, outcomes, tree_before, aux_vars >>

\* ------------------------------------------------------------ DocumentStore
\* json.load(f) of a sidecar file: the value that was dumped, or an exception
\* when the file holds no JSON document.
ParseJson(file) ==
  IF file.state = "complete" THEN Returned(file.content) ELSE Raised

\* Lines 44-45: doc_record.get("doc_id") is truthy.
HasDocId(doc_record) ==
  /\ "doc_id" \in DOMAIN doc_record
  /\ doc_record["doc_id"] # <<>>

\* WithDirPath that keeps a "_dir_path" found in the sidecar.
WithDirPath_Trusting(doc_record, dir) ==
  [ k \in DOMAIN doc_record \cup {"_dir_path"} |->
      IF k = "_dir_path" /\ k \notin DOMAIN doc_record THEN dir
      ELSE doc_record[k] ]

\* Line 47: doc_record["_dir_path"] = str(record_file.parent)
WithDirPath(doc_record, dir) ==
  [ k \in DOMAIN doc_record \cup {"_dir_path"} |->
      IF k = "_dir_path" THEN dir ELSE doc_record[k] ]

\* Line 48: self.documents[doc_id] = doc_record
Put(docs, doc_id, doc_record) ==
  [ k \in DOMAIN docs \cup {doc_id} |->
      IF k = doc_id THEN doc_record ELSE docs[k] ]

\* Lines 35-40: the working directory exists; the glob reads its entries.
Load_Start ==
  /\ load_pc = "idle"
  /\ load_pc' = "scanning"
  /\ pending' = DOMAIN fs
  /\ load_after' = <<pc, idx>>
  /\ UNCHANGED << folder, files, pc, idx, document_records, record, doc,
                  image_paths, page_summaries, document_summary, calls, fs,
                  index_file, index_text, passed, outcomes, tree_before,
                  documents, observed, again_vars, cli_vars, run_vars,
                  raster_vars, more_vars >>

\* Load_Next without the try/except of lines 41-50.
Load_Next_NoExcept ==
  /\ load_pc = "scanning"
  /\ \E s \in pending :
       /\ pending' = pending \ {s}
       /\ IF fs[s].sidecar.state = "absent"
          THEN UNCHANGED << documents, observed, load_pc >>
          ELSE LET r == ParseJson(fs[s].sidecar) IN
               /\ observed' = observed \cup
                    { [dir |-> s, state |-> fs[s].sidecar.state, during |-> pc] }
               /\ load_pc' = IF r.raised THEN "load_raised" ELSE load_pc
               /\ documents' =
                    IF ~ r.raised /\ HasDocId(r.value)
                    THEN Put(documents, r.value["doc_id"], WithDirPath(r.value, s))
                    ELSE documents
  /\ UNCHANGED << folder, files, pc, idx, document_records, record, doc,
                  image_paths, page_summaries, document_summary, calls, fs,
                  index_file, index_text, passed, outcomes, tree_before,
                  load_after, again_vars, cli_vars, run_vars, raster_vars,
                  more_vars >>

\* Lines 40-50: the glob goes to one more subdirectory, in no particular
\* order, and yields its sidecar if it exists; the sidecar is opened and
\* parsed, and a record with a doc_id is stored under it.
Load_Next ==
  /\ load_pc = "scanning"
  /\ \E s \in pending :
       /\ pending' = pending \ {s}
       /\ IF fs[s].sidecar.state = "absent"
          THEN UNCHANGED << documents, observed >>
          ELSE LET r == ParseJson(fs[s].sidecar) IN
               /\ observed' = observed \cup
                    { [dir |-> s, state |-> fs[s].sidecar.state, during |-> pc] }
               /\ documents' =
                    IF ~ r.raised /\ HasDocId(r.value)
                    THEN Put(documents, r.value["doc_id"], WithDirPath(r.value, s))
                    ELSE documents
  /\ UNCHANGED << folder, files, pc, idx, document_records, record, doc,
                  image_paths, page_summaries, document_summary, calls, fs,
                  index_file, index_text, passed, outcomes, tree_before,
                  load_pc, load_after, again_vars, cli_vars, run_vars,
                  raster_vars, more_vars >>

\* Line 52: the glob is exhausted.
Load_End ==
  /\ load_pc = "scanning"
  /\ pending = {}
  /\ load_pc' = "loaded"
  /\ UNCHANGED << folder, files, pc, idx, document_records, record, doc,
                  image_paths, page_summaries, document_summary, calls, fs,
                  index_file, index_text, passed, outcomes, tree_before,
                  documents, pending, observed, load_after, again_vars,
                  cli_vars, run_vars, raster_vars, more_vars >>

\* The caller passes the same descriptor to process_document once more.
PD_Again ==
  /\ pc = "pd_done"
  /\ idx = 1
  /\ idx' = idx + 1
  /\ passed' = Append(passed, idx + 1)
  /\ first' = [ record |-> record, sidecar |-> fs[DocSlug].sidecar,
                outcome |-> outcomes[Len(outcomes)] ]
  /\ image_paths' = <<>>
  /\ page_summaries' = <<>>
  /\ document_summary' = <<>>
  /\ calls' = <<>>
  /\ pc' = "pd_enter"
  /\ tree_before' = DirTree(fs)
  /\ UNCHANGED << folder, files, document_records, record, doc, fs,
                  index_file, index_text, outcomes, store_vars, cli_vars,
                  run_vars, raster_vars, more_vars >>

\* ------------------------------------------------------------ PDFProcessor
\* Page counts of the sources of a direct call: the small ones and the first
\* one whose last page number has more digits than the minimum width.
RasterPageCounts == (0..MaxPages) \cup { 10 ^ PAD_WIDTH }

\* A test calls extract_pages_as_images(pdf_path, output_dir) on a source.
R_Call ==
  /\ r_pc = "idle"
  /\ r_images' \in RasterPageCounts
  /\ r_pc' = "called"
  /\ UNCHANGED << folder, files, pc, idx, document_records, record, doc,
                  image_paths, page_summaries, document_summary, calls, fs,
                  index_file, index_text, passed, outcomes, tree_before,
                  store_vars, again_vars, cli_vars, run_vars, r_fail_at,
                  r_files, r_result, more_vars >>

\* Lines 49-70: the whole call, with or without a failure.
R_Extract ==
  /\ r_pc = "called"
  /\ \E fail_at \in 0..r_images :
       /\ r_fail_at' = fail_at
       /\ r_result' = ExtractPagesAsImages(<<"d">>, r_images, fail_at)
       /\ r_files' = SavedImages(r_images, fail_at)
  /\ r_pc' = "returned"
  /\ UNCHANGED << folder, files, pc, idx, document_records, record, doc,
                  image_paths, page_summaries, document_summary, calls, fs,
                  index_file, index_text, passed, outcomes, tree_before,
                  store_vars, again_vars, cli_vars, run_vars, r_images,
                  more_vars >>

\* ------------------------------------------- document_tools: store and tools
\* The documents a DocumentStore constructor may load from a working root:
\* every directory with a readable sidecar that has a doc_id gives a record;
\* of two sidecars with one doc_id the glob order decides which is kept.
LoadResults(tree) ==
  LET valid == { s \in DOMAIN tree :
                   /\ tree[s].sidecar.state = "complete"
                   /\ HasDocId(tree[s].sidecar.content) }
      ids == { tree[s].sidecar.content["doc_id"] : s \in valid }
  IN { m \in [ ids -> { WithDirPath(tree[s].sidecar.content, s) : s \in valid } ] :
         \A k \in ids : m[k]["doc_id"] = k }

\* Lines 21-31: the object a completed constructor returns; built tells the
\* objects of different constructor calls apart.
DocumentStore(built, docs) == [built |-> built, documents |-> docs]

\* initialize_document_store that binds the global only when it is None.
InitializeDocumentStore_Once(current, new) ==
  IF current = None THEN new ELSE current

\* Lines 150-151: global _document_store; _document_store = DocumentStore(...)
InitializeDocumentStore(current, new) == new

\* Lines 163-167: raise RuntimeError when the global is None, else return it.
GetDocumentStore(current) ==
  IF current = None THEN Raised ELSE Returned(current)

\* str(page_nums) of a list of integers: "[1, 2]"
ListRepr(page_nums) ==
  <<"[">> \o Join(<<", ">>, [ i \in DOMAIN page_nums |-> Digits(page_nums[i]) ])
    \o <<"]">>

\* Lines 63-79: DocumentStore.get_document_summary
GetDocumentSummary(store, doc_id) ==
  IF doc_id \notin DOMAIN store.documents
  THEN <<"Error: Document ">> \o doc_id \o <<" not found in store">>
  ELSE LET d == store.documents[doc_id] IN
       Join(<<"\n">>,
            << <<"Document: ">> \o d.file_name,
               <<"Type: ", d.mime_type>>,
               <<"Pages: ">> \o Digits(d.total_pages),
               <<"\n", "Document Summary:">>,
               d.document_summary,
               <<"\n", "Page-by-Page Summaries:">> >> \o
            [ i \in DOMAIN d.pages |->
                <<"\n", "Page ">> \o Digits(d.pages[i].page_num) \o <<": ">>
                  \o d.pages[i].summary ])

\* Lines 188-192: the get_document tool catches every exception of the
\* lookup and returns its text.
GetDocumentTool(current, doc_id) ==
  LET r == GetDocumentStore(current) IN
  IF r.raised
  THEN <<"Error retrieving document ">> \o doc_id
         \o <<": ", "Document store not initialized. Call initialize_document_store() first.">>
  ELSE GetDocumentSummary(r.value, doc_id)

\* Lines 108-110: pages_dir / f"page_{page_num:04d}.png" exists
PageFileExists(dir, page_num) ==
  \E n \in dir.images : PageFileName(n) = PageFileName(page_num)

\* Lines 119-124: the summary of the first page entry with that number.
PageSummaryOf(d, page_num) ==
  IF \E i \in DOMAIN d.pages : d.pages[i].page_num = page_num
  THEN d.pages[CHOOSE i \in DOMAIN d.pages :
                 /\ d.pages[i].page_num = page_num
                 /\ \A j \in 1..(i - 1) : d.pages[j].page_num # page_num].summary
  ELSE <<>>

\* Lines 108-134: what one turn of the loop appends to result_parts.
PagePart(d, dir, page_num, unreadable) ==
  IF ~ PageFileExists(dir, page_num)
  THEN <<"\n", "Page ">> \o Digits(page_num) \o <<": Not found">>
  ELSE IF page_num \in unreadable
  THEN <<"\n", "Page ">> \o Digits(page_num)
         \o <<": Error reading image - ", "e">>
  ELSE <<"\n", "Page ">> \o Digits(page_num) \o <<":", "\n", "Summary: ">>
         \o PageSummaryOf(d, page_num)
         \o <<"\n", "Image (base64, first 100 chars): ", "image data", "...",
              "\n", "[Full image data: ", "n", " characters]">>

RECURSIVE PagesLoop_Break(_, _, _, _)
\* The loop with break in place of continue at line 112.
PagesLoop_Break(d, dir, page_nums, unreadable) ==
  IF page_nums = <<>> THEN <<>>
  ELSE IF ~ PageFileExists(dir, Head(page_nums))
  THEN << PagePart(d, dir, Head(page_nums), unreadable) >>
  ELSE << PagePart(d, dir, Head(page_nums), unreadable) >>
         \o PagesLoop_Break(d, dir, Tail(page_nums), unreadable)

RECURSIVE PagesLoop(_, _, _, _)
\* Lines 106-134: for page_num in page_nums, in the order given.
PagesLoop(d, dir, page_nums, unreadable) ==
  IF page_nums = <<>> THEN <<>>
  ELSE << PagePart(d, dir, Head(page_nums), unreadable) >>
         \o PagesLoop(d, dir, Tail(page_nums), unreadable)

\* Lines 91-136: result_parts of DocumentStore.get_document_pages; one part
\* only when the call returns before the loop.
GetDocumentPagesParts(store, tree, doc_id, page_nums, unreadable) ==
  IF doc_id \notin DOMAIN store.documents
  THEN << <<"Error: Document ">> \o doc_id \o <<" not found in store">> >>
  ELSE LET d == store.documents[doc_id]
           s == d["_dir_path"]
       IN IF s \notin DOMAIN tree
          THEN << <<"Error: Document directory not found for ">> \o doc_id >>
          ELSE IF ~ tree[s].pages_dir
          THEN << <<"Error: Pages directory not found for ">> \o doc_id >>
          ELSE << <<"Document: ">> \o d.file_name,
                  <<"Requested pages: ">> \o ListRepr(page_nums) \o <<"\n">> >>
                 \o PagesLoop(d, tree[s], page_nums, unreadable)

\* Number of calls of initialize_document_store and resets of the global.
MaxStoreEvents == MaxRuns

\* initialize_document_store(index_path, working_dir): the constructor
\* completes and the global is rebound, or the constructor raises (Path() of
\* an argument that is no path) and the global keeps its value.
T_Initialize ==
  /\ Len(g_log) < MaxStoreEvents
  /\ \E completed \in BOOLEAN :
       IF completed
       THEN \E docs \in LoadResults(fs) :
              LET new == DocumentStore(Len(g_log) + 1, docs) IN
              /\ g_store' = InitializeDocumentStore(g_store, new)
              /\ g_log' = Append(g_log, [ev |-> "initialize", store |-> new])
              /\ t_result' = Returned(<<>>)
       ELSE /\ g_log' = Append(g_log, [ev |-> "initialize_raised", store |-> None])
            /\ t_result' = Raised
            /\ UNCHANGED g_store
  /\ t_call' = [op |-> "initialize_document_store"]
  /\ t_parts' = <<>>
  /\ UNCHANGED << core_vars, store_vars, again_vars, cli_vars, run_vars,
                  raster_vars, list_vars, web_vars >>

\* A test resets the global: document_tools._document_store = None
T_Unset ==
  /\ Len(g_log) < MaxStoreEvents
  /\ g_store' = None
  /\ g_log' = Append(g_log, [ev |-> "unset", store |-> None])
  /\ t_call' = [op |-> "unset"]
  /\ t_parts' = <<>>
  /\ t_result' = Returned(<<>>)
  /\ UNCHANGED << core_vars, store_vars, again_vars, cli_vars, run_vars,
                  raster_vars, list_vars, web_vars >>

\* get_document_store()
T_GetStore ==
  /\ t_call' = [op |-> "get_document_store"]
  /\ t_parts' = <<>>
  /\ t_result' = GetDocumentStore(g_store)
  /\ UNCHANGED << core_vars, store_vars, again_vars, cli_vars, run_vars,
                  raster_vars, list_vars, web_vars, g_store, g_log >>

\* get_document.invoke({"doc_id": doc_id})
T_GetDocument ==
  /\ \E doc_id \in { <<"F0">>, <<"F1">> } :
       /\ t_call' = [op |-> "get_document", doc_id |-> doc_id]
       /\ t_result' = Returned(GetDocumentTool(g_store, doc_id))
  /\ t_parts' = <<>>
  /\ UNCHANGED << core_vars, store_vars, again_vars, cli_vars, run_vars,
                  raster_vars, list_vars, web_vars, g_store, g_log >>

\* Page numbers of the stored document of the tool specifications.
ToolPageNums == {1, 2}

\* Requests of at most two pages; a page may be asked for twice and may lie
\* beyond the document.
PageRequests ==
  LET nums == ToolPageNums \cup {3} IN
  { <<>> } \cup { <<a>> : a \in nums } \cup { <<a, b>> : a, b \in nums }

\* store.get_document_pages(doc_id, page_nums) on the current store; the
\* image of a page that exists may fail to open.
T_GetPages ==
  /\ g_store # None
  /\ \E doc_id \in { <<"F0">>, <<"F1">> }, page_nums \in PageRequests,
        unreadable \in { {}, {1} } :
       /\ t_call' = [ op |-> "get_document_pages", doc_id |-> doc_id,
                      page_nums |-> page_nums, unreadable |-> unreadable ]
       /\ t_parts' = GetDocumentPagesParts(g_store, fs, doc_id, page_nums,
                                           unreadable)
       /\ t_result' = Returned(Join(<<"\n">>, t_parts'))
  /\ UNCHANGED << core_vars, store_vars, again_vars, cli_vars, run_vars,
                  raster_vars, list_vars, web_vars, g_store, g_log >>

\* ------------------------------------------------- web.pages.indexer
\* st.session_state.get(key, default)
SessionGet(value, default) == IF value = <<>> THEN default ELSE value[1]

\* run_indexing without its finally clause.
FlagAfterRun_Kept(flag) == flag

\* Lines 215-216: finally: st.session_state.indexing_in_progress = False
FlagAfterRun(flag) == <<FALSE>>

\* run_indexing leaves its try statement; how tells the path taken.
W_Leave(how) ==
  /\ w_exits' = Append(w_exits, how)
  /\ w_pc' = "finally"

\* Lines 89-104: a script run in which the start button was not clicked:
\* the button is rendered and run_indexing is not called.
W_Show ==
  /\ w_pc \in {"unrendered", "idle"}
  /\ w_disabled' = SessionGet(indexing_in_progress, FALSE)
  /\ w_pc' = "idle"
  /\ UNCHANGED << core_vars, store_vars, again_vars, cli_vars, run_vars,
                  raster_vars, list_vars, tool_vars, indexing_in_progress,
                  w_index_file, w_exits >>

\* Lines 89-100: the script run that follows a click on the start button,
\* which the last rendering had enabled: the button is rendered again and
\* run_indexing is called.
W_Click ==
  /\ w_pc = "idle"
  /\ ~ w_disabled
  /\ Len(w_exits) < MaxRuns
  /\ w_disabled' = SessionGet(indexing_in_progress, FALSE)
  /\ w_pc' = "run_indexing"
  /\ UNCHANGED << core_vars, store_vars, again_vars, cli_vars, run_vars,
                  raster_vars, list_vars, tool_vars, indexing_in_progress,
                  w_index_file, w_exits >>

\* Line 111
W_SetFlag ==
  /\ w_pc = "run_indexing"
  /\ indexing_in_progress' = <<TRUE>>
  /\ w_pc' = "setup"
  /\ UNCHANGED << core_vars, store_vars, again_vars, cli_vars, run_vars,
                  raster_vars, list_vars, tool_vars, w_index_file,
                  w_disabled, w_exits >>

\* Lines 113-134: the progress widgets are created; a Streamlit call may
\* raise (the script run is stopped), which no except clause catches.
W_Setup ==
  /\ w_pc = "setup"
  /\ \E raised \in BOOLEAN :
       IF raised THEN W_Leave("setup_raised")
       ELSE w_pc' = "init" /\ UNCHANGED w_exits
  /\ UNCHANGED << core_vars, store_vars, again_vars, cli_vars, run_vars,
                  raster_vars, list_vars, tool_vars, indexing_in_progress,
                  w_index_file, w_disabled >>

\* Lines 136-149: DataRoomIndexer(...) is constructed; when it raises, the
\* except clause reports, resets the flag and returns, unless the report
\* itself raises.
W_InitIndexer ==
  /\ w_pc = "init"
  /\ \E constructed \in BOOLEAN, reported \in BOOLEAN :
       IF constructed
       THEN /\ w_pc' = "build"
            /\ UNCHANGED << indexing_in_progress, w_exits >>
       ELSE IF reported
       THEN /\ indexing_in_progress' = <<FALSE>>
            /\ W_Leave("init_failed")
       ELSE /\ W_Leave("init_report_raised")
            /\ UNCHANGED indexing_in_progress
  /\ UNCHANGED << core_vars, store_vars, again_vars, cli_vars, run_vars,
                  raster_vars, list_vars, tool_vars, w_index_file,
                  w_disabled >>

\* Lines 160-174, 208-213: build_data_room_index returns, or raises and the
\* except clause reports the failure.
W_Build ==
  /\ w_pc = "build"
  /\ \E built \in BOOLEAN :
       IF built THEN w_pc' = "save" /\ UNCHANGED w_exits
       ELSE W_Leave("build_failed")
  /\ UNCHANGED << core_vars, store_vars, again_vars, cli_vars, run_vars,
                  raster_vars, list_vars, tool_vars, indexing_in_progress,
                  w_index_file, w_disabled >>

\* Lines 176-213: the index is written to output_path and the session
\* remembers it, or the write raises and the except clause reports.
W_Save ==
  /\ w_pc = "save"
  /\ \E written \in BOOLEAN :
       IF written
       THEN /\ w_index_file' = TRUE
            /\ W_Leave("success")
       ELSE /\ W_Leave("save_failed")
            /\ UNCHANGED w_index_file
  /\ UNCHANGED << core_vars, store_vars, again_vars, cli_vars, run_vars,
                  raster_vars, list_vars, tool_vars, indexing_in_progress,
                  w_disabled >>

\* Lines 215-216, 102-104: the finally clause runs on every way out of the
\* try statement; run_indexing has ended and the script run ends.
W_Finally ==
  /\ w_pc = "finally"
  /\ indexing_in_progress' = FlagAfterRun(indexing_in_progress)
  /\ w_pc' = "idle"
  /\ UNCHANGED << core_vars, store_vars, again_vars, cli_vars, run_vars,
                  raster_vars, list_vars, tool_vars, w_index_file,
                  w_disabled, w_exits >>

\* ----------------------------------------------------------------- cli.main
\* Lines 76-80: "INDEX BUILT SUCCESSFULLY" is printed and main returns, so
\* the process exits with status 0.
CLI_Success ==
  /\ pc = "done"
  /\ exit_code = <<>>
  /\ exit_code' = <<0>>
  /\ UNCHANGED << folder, files, pc, idx, document_records, record, doc,
                  image_paths, page_summaries, document_summary, calls, fs,
                  index_file, index_text, passed, outcomes, tree_before,
                  store_vars, again_vars, listing, run_vars, raster_vars,
                  more_vars >>

\* Lines 82-87: an exception of build_data_room_index reaches the except
\* clause: sys.exit(1).
CLI_Error ==
  /\ pc \in {"raised_doc", "raised_index"}
  /\ exit_code = <<>>
  /\ exit_code' = <<1>>
  /\ UNCHANGED << folder, files, pc, idx, document_records, record, doc,
                  image_paths, page_summaries, document_summary, calls, fs,
                  index_file, index_text, passed, outcomes, tree_before,
                  store_vars, again_vars, listing, run_vars, raster_vars,
                  more_vars >>

\* ----------------------------------------------------------- specifications
\* No store has been loaded.
StoreInit ==
  /\ documents = <<>>
  /\ load_pc = "idle"
  /\ pending = {}
  /\ observed = {}
  /\ load_after = <<>>

AgainInit == first = None

\* main has not exited and no listing was requested.
CliInit ==
  /\ exit_code = <<>>
  /\ listing = "none"

\* The first run, with no file at output_path.
RunInit ==
  /\ run = 1
  /\ index_before = NoFile

\* extract_pages_as_images is not running.
RasterInit ==
  /\ r_pc = "idle"
  /\ r_images = 0
  /\ r_fail_at = 0
  /\ r_files = {}
  /\ r_result = None

\* A response without files and without a next-page token.
NoResponse == [files |-> <<>>, nextPageToken |-> <<>>]

\* list_folder_contents is not running.
ListInit ==
  /\ l_pc = "idle"
  /\ l_pages = <<>>
  /\ l_results = NoResponse
  /\ l_files = <<>>
  /\ l_requests = <<>>
  /\ l_failed = 0

\* Line 140: _document_store = None; no call was made.
ToolInit ==
  /\ g_store = None
  /\ g_log = <<>>
  /\ t_call = [op |-> "none"]
  /\ t_parts = <<>>
  /\ t_result = None

\* A new session: the page was not rendered and no key is set.
WebInit ==
  /\ w_pc = "unrendered"
  /\ indexing_in_progress = <<>>
  /\ w_index_file = FALSE
  /\ w_disabled = FALSE
  /\ w_exits = <<>>

MoreInit == ListInit /\ ToolInit /\ WebInit

DriveFile(id, name, mime, pages) ==
  [id |-> id, name |-> name, mimeType |-> mime, pages |-> pages]

\* The drive serves a PDF (of some number of pages, 0 when it is corrupt)
\* only for a file it can download or export.
DriveFiles(names, mimes, page_counts) ==
  { DriveFile(i, n, m, IF AcquireKind(m) = "unsupported" THEN 0 ELSE p) :
      i \in IdSet, n \in names, m \in mimes, p \in page_counts }

\* Folders of a whole run: at most MaxFiles files with distinct ids.
RunFolders ==
  UNION { { f \in [ 1..k -> DriveFiles(NameSet, RunMimeTypes, RunPageCounts) ] :
              \A a, b \in 1..k : a # b => f[a].id # f[b].id } :
          k \in 0..MaxFiles }

\* DataRoomIndexer.__init__ has run: the working root exists and is empty.
Init ==
  /\ folder \in RunFolders
  /\ files = <<>>
  /\ pc = "start"
  /\ idx = 0
  /\ document_records = <<>>
  /\ record = None
  /\ doc = [file_id |-> <<>>, file_name |-> <<>>, mime_type |-> ""]
  /\ image_paths = <<>>
  /\ page_summaries = <<>>
  /\ document_summary = <<>>
  /\ calls = <<>>
  /\ fs = <<>>
  /\ index_file = NoFile
  /\ index_text = None
  /\ passed = <<>>
  /\ outcomes = <<>>
  /\ tree_before = {}
  /\ StoreInit
  /\ AgainInit
  /\ CliInit
  /\ RunInit
  /\ RasterInit
  /\ MoreInit

ProcessDocument ==
  \/ PD_Enter
  \/ PD_Acquire
  \/ PD_Extract
  \/ PD_SummarizePage
  \/ PD_SummarizeDocument
  \/ PD_OpenSidecar
  \/ PD_DumpSidecar

Next ==
  \/ ListFolder
  \/ LoopNext
  \/ ProcessDocument
  \/ LoopCollect
  \/ LoopExit
  \/ RenderAndSave
  \/ CLI_Success
  \/ CLI_Error

Spec == Init /\ [][Next]_vars

\* A listing is served in at most MaxFiles + 1 pages.
MaxListPages == MaxFiles + 1

RECURSIVE SumSizes(_, _)
SumSizes(sz, k) == IF k = 0 THEN 0 ELSE sz[k] + SumSizes(sz, k - 1)

\* The ways the drive may cut a listing into consecutive pages; a page may
\* be empty.
Pagings(seq) ==
  UNION { { [ k \in 1..n |->
                SubSeq(seq, SumSizes(sz, k - 1) + 1, SumSizes(sz, k)) ] :
              sz \in { s \in [ 1..n -> 0..Len(seq) ] :
                         SumSizes(s, n) = Len(seq) } } :
          n \in 1..MaxListPages }

\* Folders of a paged listing: the i-th file has the i-th id.
IdOf(i) == << "F" \o ToString(i) >>

ListFolders ==
  UNION { { f \in [ 1..k -> DriveFiles({<<"c">>}, RunMimeTypes, {1}) ] :
              \A i \in 1..k : f[i].id = IdOf(i) } :
          k \in 0..MaxFiles }

\* build_data_room_index on a folder whose listing the drive serves in
\* pages.
InitList ==
  /\ folder \in ListFolders
  /\ files = <<>>
  /\ pc = "start"
  /\ idx = 0
  /\ document_records = <<>>
  /\ record = None
  /\ doc = [file_id |-> <<>>, file_name |-> <<>>, mime_type |-> ""]
  /\ image_paths = <<>>
  /\ page_summaries = <<>>
  /\ document_summary = <<>>
  /\ calls = <<>>
  /\ fs = <<>>
  /\ index_file = NoFile
  /\ index_text = None
  /\ passed = <<>>
  /\ outcomes = <<>>
  /\ tree_before = {}
  /\ StoreInit
  /\ AgainInit
  /\ CliInit
  /\ RunInit
  /\ RasterInit
  /\ l_pc = "idle"
  /\ l_pages \in Pagings([ i \in DOMAIN folder |-> Descriptor(folder[i]) ])
  /\ l_results = NoResponse
  /\ l_files = <<>>
  /\ l_requests = <<>>
  /\ l_failed = 0
  /\ ToolInit
  /\ WebInit

NextList ==
  \/ L_First
  \/ L_NextPage
  \/ L_Return
  \/ LoopNext
  \/ ProcessDocument
  \/ LoopCollect
  \/ LoopExit
  \/ RenderAndSave

SpecList == InitList /\ [][NextList]_vars

\* The directory of a processed document of which the page images in
\* present are (still) on disk.
ToolDir(id, name, present, has_pages_dir) ==
  [ pdf |-> [state |-> "complete", content |-> id],
    pages_dir |-> has_pages_dir,
    images |-> IF has_pages_dir THEN present ELSE {},
    sidecar |->
      [ state |-> "complete", writer |-> 0,
        content |->
          RecordForJson(
            DocumentRecord(id, name, PDF_MIME,
                           [ n \in ToolPageNums |->
                               PageEntry(n, <<"page text ">> \o Digits(n),
                                         ImagePath(Slug(name), n)) ],
                           <<"document text">>)) ] ]

\* Working roots the store is built over: empty, or holding document F1
\* with some of its page images.
ToolTrees ==
  { <<>> } \cup
  { [ s \in { <<"c">> } |-> ToolDir(<<"F1">>, <<"c">>, present, has) ] :
      present \in SUBSET ToolPageNums, has \in BOOLEAN }

\* The process after import of document_tools, over a processed working
\* root.
InitTools ==
  /\ folder = <<>>
  /\ files = <<>>
  /\ pc = "done"
  /\ idx = 0
  /\ document_records = <<>>
  /\ record = None
  /\ doc = [file_id |-> <<>>, file_name |-> <<>>, mime_type |-> ""]
  /\ image_paths = <<>>
  /\ page_summaries = <<>>
  /\ document_summary = <<>>
  /\ calls = <<>>
  /\ fs \in ToolTrees
  /\ index_file = NoFile
  /\ index_text = None
  /\ passed = <<>>
  /\ outcomes = <<>>
  /\ tree_before = {}
  /\ StoreInit
  /\ AgainInit
  /\ CliInit
  /\ RunInit
  /\ RasterInit
  /\ MoreInit

NextTools ==
  \/ T_Initialize
  \/ T_Unset
  \/ T_GetStore
  \/ T_GetDocument
  \/ T_GetPages

SpecTools == InitTools /\ [][NextTools]_vars

\* The store is constructed over the working root once
\* build_data_room_index has returned.
Agree_Open ==
  /\ pc = "done"
  /\ Load_Start

\* Folders of PDFs whose names may sanitise to one slug; the i-th file has
\* the i-th id.
AgreeFolders ==
  UNION { { f \in [ 1..k -> DriveFiles(NameSet, {PDF_MIME}, RunPageCounts) ] :
              \A i \in 1..k : f[i].id = IdOf(i) } :
          k \in 0..MaxFiles }

\* build_data_room_index over an empty working root, then a DocumentStore
\* over that root.
InitAgree ==
  /\ folder \in AgreeFolders
  /\ files = <<>>
  /\ pc = "start"
  /\ idx = 0
  /\ document_records = <<>>
  /\ record = None
  /\ doc = [file_id |-> <<>>, file_name |-> <<>>, mime_type |-> ""]
  /\ image_paths = <<>>
  /\ page_summaries = <<>>
  /\ document_summary = <<>>
  /\ calls = <<>>
  /\ fs = <<>>
  /\ index_file = NoFile
  /\ index_text = None
  /\ passed = <<>>
  /\ outcomes = <<>>
  /\ tree_before = {}
  /\ StoreInit
  /\ AgainInit
  /\ CliInit
  /\ RunInit
  /\ RasterInit
  /\ MoreInit

NextAgree ==
  \/ ListFolder
  \/ LoopNext
  \/ ProcessDocument
  \/ LoopCollect
  \/ LoopExit
  \/ RenderAndSave
  \/ Agree_Open
  \/ Load_Next
  \/ Load_End

SpecAgree == InitAgree /\ [][NextAgree]_vars

\* A new session of the web application opens the indexer page.
InitWeb ==
  /\ folder = <<>>
  /\ files = <<>>
  /\ pc = "start"
  /\ idx = 0
  /\ document_records = <<>>
  /\ record = None
  /\ doc = [file_id |-> <<>>, file_name |-> <<>>, mime_type |-> ""]
  /\ image_paths = <<>>
  /\ page_summaries = <<>>
  /\ document_summary = <<>>
  /\ calls = <<>>
  /\ fs = <<>>
  /\ index_file = NoFile
  /\ index_text = None
  /\ passed = <<>>
  /\ outcomes = <<>>
  /\ tree_before = {}
  /\ StoreInit
  /\ AgainInit
  /\ CliInit
  /\ RunInit
  /\ RasterInit
  /\ MoreInit

NextWeb ==
  \/ W_Show
  \/ W_Click
  \/ W_SetFlag
  \/ W_Setup
  \/ W_InitIndexer
  \/ W_Build
  \/ W_Save
  \/ W_Finally

SpecWeb == InitWeb /\ [][NextWeb]_vars

\* Drive folders of successive runs: a file may be added, removed or replaced
\* between two runs.
RunsFolders ==
  { <<>> } \cup
  { <<d>> : d \in { e \in DriveFiles({<<"c">>}, RunMimeTypes, RunPageCounts) :
                       e.id \in { <<"F1">>, <<"F2">> } } }

\* build_data_room_index is called again with the same output path, after
\* the previous call returned or raised.
Rerun ==
  /\ pc \in {"done", "raised_doc", "raised_index"}
  /\ run < MaxRuns
  /\ run' = run + 1
  /\ index_before' = index_file
  /\ folder' \in RunsFolders
  /\ files' = <<>>
  /\ pc' = "start"
  /\ idx' = 0
  /\ document_records' = <<>>
  /\ record' = None
  /\ doc' = [file_id |-> <<>>, file_name |-> <<>>, mime_type |-> ""]
  /\ image_paths' = <<>>
  /\ page_summaries' = <<>>
  /\ document_summary' = <<>>
  /\ calls' = <<>>
  /\ index_text' = None
  /\ passed' = <<>>
  /\ outcomes' = <<>>
  /\ tree_before' = {}
  /\ listing' = "none"
  /\ UNCHANGED << fs, index_file, store_vars, again_vars, exit_code,
                  raster_vars, more_vars >>

\* Runs of build_data_room_index one after the other, on one working
\* directory and one output path.
InitRuns ==
  /\ folder \in RunsFolders
  /\ files = <<>>
  /\ pc = "start"
  /\ idx = 0
  /\ document_records = <<>>
  /\ record = None
  /\ doc = [file_id |-> <<>>, file_name |-> <<>>, mime_type |-> ""]
  /\ image_paths = <<>>
  /\ page_summaries = <<>>
  /\ document_summary = <<>>
  /\ calls = <<>>
  /\ fs = <<>>
  /\ index_file = NoFile
  /\ index_text = None
  /\ passed = <<>>
  /\ outcomes = <<>>
  /\ tree_before = {}
  /\ StoreInit
  /\ AgainInit
  /\ CliInit
  /\ RunInit
  /\ RasterInit
  /\ MoreInit

NextRuns ==
  \/ ListFolder
  \/ LoopNext
  \/ ProcessDocument
  \/ LoopCollect
  \/ LoopExit
  \/ RenderAndSave
  \/ Rerun

SpecRuns == InitRuns /\ [][NextRuns]_vars

\* Direct calls of extract_pages_as_images, as made by the tests.
InitRaster ==
  /\ folder = <<>>
  /\ files = <<>>
  /\ pc = "start"
  /\ idx = 0
  /\ document_records = <<>>
  /\ record = None
  /\ doc = [file_id |-> <<>>, file_name |-> <<>>, mime_type |-> ""]
  /\ image_paths = <<>>
  /\ page_summaries = <<>>
  /\ document_summary = <<>>
  /\ calls = <<>>
  /\ fs = <<>>
  /\ index_file = NoFile
  /\ index_text = None
  /\ passed = <<>>
  /\ outcomes = <<>>
  /\ tree_before = {}
  /\ StoreInit
  /\ AgainInit
  /\ CliInit
  /\ RunInit
  /\ RasterInit
  /\ MoreInit

NextRaster ==
  \/ R_Call
  \/ R_Extract

SpecRaster == InitRaster /\ [][NextRaster]_vars

\* A document directory left by an earlier run.
OldDir(name) ==
  [ pdf |-> [state |-> "complete", content |-> <<"F0">>],
    pages_dir |-> TRUE,
    images |-> {1},
    sidecar |->
      [ state |-> "complete", writer |-> 0,
        content |->
          RecordForJson(
            DocumentRecord(<<"F0">>, name, PDF_MIME,
                           << PageEntry(1, <<"page text">>, ImagePath(Slug(name), 1)) >>,
                           <<"document text">>)) ] ]

\* Working roots a direct call of process_document may find: empty, or
\* holding the directory of one document processed earlier.
DocTrees ==
  { <<>> } \cup
  { [ s \in {Slug(name)} |-> OldDir(name) ] : name \in DocNameSet }

\* A direct call process_document(file_id, file_name, mime_type), as made by
\* the tests of the repository.
InitDoc ==
  /\ \E d \in DriveFiles(DocNameSet, MimeTypes, 0..MaxPages) :
       /\ d.id = <<"F1">>
       /\ folder = <<d>>
       /\ doc = [file_id |-> d.id, file_name |-> d.name, mime_type |-> d.mimeType]
  /\ fs \in DocTrees
  /\ tree_before = DirTree(fs)
  /\ files = <<>>
  /\ pc = "pd_enter"
  /\ idx = 1
  /\ document_records = <<>>
  /\ record = None
  /\ image_paths = <<>>
  /\ page_summaries = <<>>
  /\ document_summary = <<>>
  /\ calls = <<>>
  /\ index_file = NoFile
  /\ index_text = None
  /\ passed = <<1>>
  /\ outcomes = <<>>
  /\ StoreInit
  /\ AgainInit
  /\ CliInit
  /\ RunInit
  /\ RasterInit
  /\ MoreInit

NextDoc ==
  \/ PD_Enter
  \/ PD_Acquire
  \/ PD_Extract
  \/ PD_SummarizePage
  \/ PD_SummarizeDocument
  \/ PD_OpenSidecar
  \/ PD_DumpSidecar

SpecDoc == InitDoc /\ [][NextDoc]_vars

\* The directory of a document processed by an earlier run under a name.
StoredDir(id, name) ==
  [ pdf |-> [state |-> "complete", content |-> id],
    pages_dir |-> TRUE,
    images |-> {1},
    sidecar |->
      [ state |-> "complete", writer |-> 0,
        content |->
          RecordForJson(
            DocumentRecord(id, name, PDF_MIME,
                           << PageEntry(1, <<"page text">>, ImagePath(Slug(name), 1)) >>,
                           <<"document text">>)) ] ]

\* A directory whose sidecar is no JSON document (an interrupted dump), or a
\* JSON object without a doc_id.
MalformedDirs ==
  { [ EmptyDir EXCEPT !.sidecar = [state |-> "partial", writer |-> 0] ],
    [ EmptyDir EXCEPT !.sidecar =
        [ state |-> "complete", writer |-> 0,
          content |-> [file_name |-> <<"m">>] ] ] }

\* A directory whose sidecar holds a "_dir_path" of its own: the dump of a
\* record that a store had loaded when the directory was at where.
StoredWithDirPath(dir, where) ==
  [ dir EXCEPT !.sidecar.content =
      [ k \in DOMAIN dir.sidecar.content \cup {"_dir_path"} |->
          IF k = "_dir_path" THEN where ELSE dir.sidecar.content[k] ] ]

\* What earlier runs may have left under the working root: the document of
\* this run under its former name "o", other documents (with or without a
\* stored "_dir_path"), a malformed sidecar.
StoreTrees ==
  { [ s \in S |->
        IF s = <<"o">> THEN StoredDir(<<"F1">>, <<"o">>)
        ELSE IF s = <<"p">> THEN q
        ELSE m ] :
      S \in SUBSET { <<"o">>, <<"p">>, <<"m">> }, m \in MalformedDirs,
      q \in { StoredDir(<<"F0">>, <<"p">>),
              StoredWithDirPath(StoredDir(<<"F0">>, <<"p">>), <<"x">>) } }

\* Page counts of the source in the store specifications.
StorePageCounts == {2}

\* process_document is called for one PDF, and possibly again with the same
\* arguments; a DocumentStore is constructed over the working directory once
\* a call has ended.
InitStore ==
  /\ \E d \in DriveFiles({<<"c">>}, {PDF_MIME}, StorePageCounts) :
       /\ d.id = <<"F1">>
       /\ folder = <<d>>
       /\ doc = [file_id |-> d.id, file_name |-> d.name, mime_type |-> d.mimeType]
  /\ fs \in StoreTrees
  /\ tree_before = DirTree(fs)
  /\ files = <<>>
  /\ pc = "pd_enter"
  /\ idx = 1
  /\ document_records = <<>>
  /\ record = None
  /\ image_paths = <<>>
  /\ page_summaries = <<>>
  /\ document_summary = <<>>
  /\ calls = <<>>
  /\ index_file = NoFile
  /\ index_text = None
  /\ passed = <<1>>
  /\ outcomes = <<>>
  /\ StoreInit
  /\ AgainInit
  /\ CliInit
  /\ RunInit
  /\ RasterInit
  /\ MoreInit

\* The store is constructed when no call of process_document is running.
Store_Open ==
  /\ pc \in {"pd_done", "raised_doc"}
  /\ Load_Start

\* The second call is made before the store is constructed.
Store_Reprocess ==
  /\ load_pc = "idle"
  /\ PD_Again

NextStore ==
  \/ PD_Enter
  \/ PD_Acquire
  \/ PD_Extract
  \/ PD_SummarizePage
  \/ PD_SummarizeDocument
  \/ PD_OpenSidecar
  \/ PD_DumpSidecar
  \/ Store_Reprocess
  \/ Store_Open
  \/ Load_Next
  \/ Load_End

SpecStore == InitStore /\ [][NextStore]_vars

\* A DocumentStore is constructed over the working directory at any moment
\* of a process_document call (an analysis started while indexing goes on).
InitConc ==
  /\ \E d \in DriveFiles({<<"c">>}, {PDF_MIME}, StorePageCounts) :
       /\ d.id = <<"F1">>
       /\ folder = <<d>>
       /\ doc = [file_id |-> d.id, file_name |-> d.name, mime_type |-> d.mimeType]
  /\ fs = <<>>
  /\ tree_before = {}
  /\ files = <<>>
  /\ pc = "pd_enter"
  /\ idx = 1
  /\ document_records = <<>>
  /\ record = None
  /\ image_paths = <<>>
  /\ page_summaries = <<>>
  /\ document_summary = <<>>
  /\ calls = <<>>
  /\ index_file = NoFile
  /\ index_text = None
  /\ passed = <<1>>
  /\ outcomes = <<>>
  /\ StoreInit
  /\ AgainInit
  /\ CliInit
  /\ RunInit
  /\ RasterInit
  /\ MoreInit

NextConc ==
  \/ PD_Enter
  \/ PD_Acquire
  \/ PD_Extract
  \/ PD_SummarizePage
  \/ PD_SummarizeDocument
  \/ PD_OpenSidecar
  \/ PD_DumpSidecar
  \/ PD_Again
  \/ Load_Start
  \/ Load_Next
  \/ Load_End

SpecConc == InitConc /\ [][NextConc]_vars

\* ------------------------------------------------------------------- claims
\* Exits of process_document that return None.
NoneOutcomes == {"unsupported", "acquisition", "rasterization"}

\* Indices of the descriptors whose invocation returned no record.
FailedIdx == { i \in 1..Len(outcomes) : outcomes[i] \in NoneOutcomes }

OkIdx == { i \in 1..Len(outcomes) : outcomes[i] = "ok" }

\* str occurs in text at position k
Occurs(text, str, k) ==
  /\ k + Len(str) - 1 <= Len(text)
  /\ \A i \in 1..Len(str) : text[k + i - 1] = str[i]

\* The positions of text at which str occurs.
Positions(text, str) == { k \in 1..Len(text) : Occurs(text, str, k) }

Contains(text, str) == Positions(text, str) # {}

\* The bullet that opens the index entry of a document.
EntryBullet(id) == <<"- **">> \o id \o <<"**: ">>

\* Number of document entries of an index text.
EntryCount(text) == Cardinality({ k \in DOMAIN text : text[k] = "- **" })

IndexSaved ==
  /\ index_text = IndexText(document_records)
  /\ index_file = [state |-> "complete", content |-> index_text]

\* C1: when process_document returns no record for a listed descriptor, the
\* loop of build_data_room_index is not left: the descriptors are passed to
\* process_document one after the other in listing order, the descriptor that
\* follows a failed one is passed next, rendering is reached only after every
\* listed descriptor was passed, and a run that ends has rendered and saved
\* the index.
C1_FailureDoesNotStopLoop ==
  \A i \in FailedIdx :
    /\ passed = [ j \in 1..idx |-> j ]
    /\ i < Len(files) => (idx > i \/ (idx = i /\ pc \in {"pd_done", "loop"}))
    /\ pc \in {"render", "done", "raised_index"} =>
         /\ idx = Len(files)
         /\ Len(passed) = Len(files)
    /\ pc = "done" => IndexSaved

\* A run that ended, whose first descriptor failed and whose second descriptor
\* was processed after it.
C1_Witness ==
  /\ pc = "done"
  /\ Len(files) >= 2
  /\ 1 \in FailedIdx
  /\ 2 \in OkIdx
  /\ passed[2] = 2
  /\ IndexSaved

\* C2: for a listing of K descriptors of which M fail at acquisition (the
\* mime type is unsupported, or the download or export fails) or at
\* rasterization, the index text returned holds exactly K - M document
\* entries and the docId of no failed descriptor occurs anywhere in it.
C2_IndexHoldsExactlyTheSuccessful ==
  pc = "done" =>
    /\ EntryCount(index_text) = Len(files) - Cardinality(FailedIdx)
    /\ \A i \in FailedIdx : ~ Contains(index_text, files[i].id)
    /\ \A i \in 1..Len(files) :
         i \notin FailedIdx => Contains(index_text, EntryBullet(files[i].id))

\* A run over two descriptors, one of which failed: one entry.
C2_Witness ==
  /\ pc = "done"
  /\ Len(files) = 2
  /\ Cardinality(FailedIdx) = 1
  /\ EntryCount(index_text) = 1

\* C3: the entries of the index are in listing order: of two successfully
\* processed descriptors the one listed first has its entry first.
C3_EntriesInListingOrder ==
  pc = "done" =>
    \A i, j \in OkIdx :
      i < j =>
        LET pi == Positions(index_text, EntryBullet(files[i].id))
            pj == Positions(index_text, EntryBullet(files[j].id))
        IN  /\ pi # {}
            /\ pj # {}
            /\ \A ki \in pi, kj \in pj : ki < kj

\* Two documents indexed, listed against the order of their ids.
C3_Witness ==
  /\ pc = "done"
  /\ OkIdx = {1, 2}
  /\ files[1].id = <<"F2">>
  /\ files[2].id = <<"F1">>
  /\ EntryCount(index_text) = 2

\* ------------------------------------------------- claims on a CLI run
\* The directory process_document uses for the i-th listed descriptor.
DirOf(i) == fs[Slug(files[i].name)]

\* C15: within one run no invocation of process_document overwrites what
\* another wrote: the source file and the sidecar in the subdirectory of every
\* processed document are the ones its own invocation wrote, descriptors with
\* distinct ids or names having distinct subdirectories.
C15_SubdirectoryHasOneWriter ==
  \A i \in OkIdx :
    /\ DirOf(i).sidecar.state = "complete"
    /\ DirOf(i).sidecar.writer = i
    /\ DirOf(i).sidecar.content.doc_id = files[i].id
    /\ DirOf(i).pdf = [state |-> "complete", content |-> files[i].id]

\* C16: when the folder listing request fails, build_data_room_index does
\* not return normally and main does not report a built index: the failure
\* reaches main, which exits with a non-zero status.
C16_ListingFailureIsFatal ==
  listing = "failed" =>
    /\ pc # "done"
    /\ exit_code # <<0>>

\* Indices of the descriptors whose sidecar could not be written.
PersistFailedIdx == { i \in 1..Len(outcomes) : outcomes[i] = "persistence" }

\* C17: a failed sidecar write does not leave process_document as an
\* exception: the invocation returns no record, the descriptors after it are
\* passed to process_document next, and the run renders and saves an index
\* without the document.
C17_SidecarFailureIsPerDocument ==
  \A i \in PersistFailedIdx :
    /\ pc # "raised_doc"
    /\ i < Len(files) => (idx > i \/ (idx = i /\ pc \in {"pd_done", "loop"}))
    /\ pc = "done" =>
         /\ IndexSaved
         /\ ~ Contains(index_text, files[i].id)

\* C18: main exits with status 0 after every run in which
\* build_data_room_index returned, whatever the number of documents that
\* failed, and exits with a non-zero status only when the listing failed or
\* the index could not be written.
C18_ExitCodes ==
  /\ (pc = "done" /\ exit_code # <<>>) => exit_code = <<0>>
  /\ exit_code \notin {<<>>, <<0>>} =>
       (listing = "failed" \/ pc = "raised_index")

\* ---------------------------------------------- claims on process_document
\* The invocation of process_document has ended.
Ended == pc \in {"pd_done", "raised_doc"}

LastOutcome == outcomes[Len(outcomes)]

\* The sidecar file of the current document.
Sidecar == fs[DocSlug].sidecar

\* The sidecar file of the current document was written by this invocation.
SidecarWrittenNow ==
  /\ DocSlug \in DOMAIN fs
  /\ Sidecar.state # "absent"
  /\ Sidecar.writer = idx

\* C4: a call with an unrecognised mime type returns the unsupported-type
\* failure and leaves the directory tree under the working root as it was.
C4_UnsupportedCreatesNoDirectory ==
  (pc = "pd_done" /\ LastOutcome = "unsupported") =>
    /\ record = None
    /\ DirTree(fs) = tree_before

\* total_pages == len(pages) and pages[i].page_num == i + 1 (indices from 0)
WellNumbered(rec) ==
  /\ rec.total_pages = Len(rec.pages)
  /\ \A i \in DOMAIN rec.pages : rec.pages[i].page_num = i

\* C5: the record returned by process_document and the sidecar it persisted
\* have total_pages == len(pages) and pages numbered 1, 2, ... in order, with
\* one page per rasterized page.
C5_PagesWellNumbered ==
  (pc = "pd_done" /\ record # None) =>
    /\ WellNumbered(record)
    /\ Len(record.pages) = Len(image_paths)
    /\ SidecarWrittenNow
    /\ Sidecar.state = "complete"
    /\ WellNumbered(Sidecar.content)
    /\ Len(Sidecar.content.pages) = Len(image_paths)

\* A record of three pages was returned.
C5_Witness ==
  /\ pc = "pd_done"
  /\ record # None
  /\ record.total_pages = 3
  /\ record.pages[3].page_num = 3

\* The calls of summarize_page_image whose model call failed.
FailedPageCalls ==
  { k \in DOMAIN calls : calls[k].op = "summarize_page_image" /\ ~ calls[k].ok }

PageSentinel(page_number) == <<"Error processing page ", ToString(page_number)>>

\* C6: a failed page summary does not fail the document: the call returns
\* the sentinel text and raises nothing, the remaining pages are summarized,
\* and the record that process_document persists and returns has one page
\* entry per rasterized page, the failed page carrying the sentinel.  After
\* a page failure the only way the invocation can still fail is the write of
\* the sidecar.
C6_PageFailureDoesNotFailDocument ==
  FailedPageCalls # {} =>
    /\ \A k \in FailedPageCalls : calls[k].ret = PageSentinel(calls[k].page)
    /\ pc \in {"pd_docsum", "pd_open", "pd_dump", "pd_done", "raised_doc"} =>
         Len(page_summaries) = Len(image_paths)
    /\ Ended => LastOutcome \in {"ok", "persistence"}
    /\ pc = "pd_done" =>
         /\ record # None
         /\ Len(record.pages) = Len(image_paths)
         /\ \A k \in FailedPageCalls :
              record.pages[calls[k].page].summary = PageSentinel(calls[k].page)
         /\ SidecarWrittenNow
         /\ Sidecar = [ state |-> "complete", writer |-> idx,
                        content |-> RecordForJson(record) ]

\* A three-page document whose second page failed was persisted and returned.
C6_Witness ==
  /\ pc = "pd_done"
  /\ record # None
  /\ Len(image_paths) = 3
  /\ \E k \in FailedPageCalls : calls[k].page = 2
  /\ record.pages[2].summary = PageSentinel(2)
  /\ record.pages[3].summary = <<"page text">>
  /\ Sidecar.state = "complete"

\* C7: an invocation that ends in failure leaves no sidecar file written by
\* that invocation in the document's directory.
C7_FailureLeavesNoSidecar ==
  (Ended /\ LastOutcome # "ok") => ~ SidecarWrittenNow

CallsOf(ops) == { k \in DOMAIN calls : calls[k].op \in ops }

AcquireOps == {"download_file", "export_as_pdf"}

\* C8: within one invocation no collaborator call is repeated: at most one
\* download or export, at most one rasterization, at most one page summary
\* per page and, once the page loop is over, exactly one for each rasterized
\* page and none for any other page, at most one document summary.
C8_EachCallAtMostOnce ==
  /\ Cardinality(CallsOf(AcquireOps)) <= 1
  /\ Cardinality(CallsOf({"extract_pages_as_images"})) <= 1
  /\ Cardinality(CallsOf({"summarize_document_from_pages"})) <= 1
  /\ \A k1, k2 \in CallsOf({"summarize_page_image"}) :
       calls[k1].page = calls[k2].page => k1 = k2
  /\ { calls[k].page : k \in CallsOf({"summarize_page_image"}) }
       \subseteq 1..Len(image_paths)
  /\ pc \in {"pd_docsum", "pd_open", "pd_dump", "pd_done", "raised_doc"} =>
       { calls[k].page : k \in CallsOf({"summarize_page_image"}) }
         = 1..Len(image_paths)
  /\ (Ended /\ LastOutcome \in {"ok", "persistence"}) =>
       /\ Cardinality(CallsOf(AcquireOps)) = 1
       /\ Cardinality(CallsOf({"summarize_document_from_pages"})) = 1

\* An invocation ended after a failed download, which was its only call.
C8_Witness ==
  /\ pc = "pd_done"
  /\ LastOutcome = "acquisition"
  /\ Len(calls) = 1
  /\ calls[1].op = "download_file"
  /\ ~ calls[1].ok

\* C9: after a failed download or export no rasterizer or summarizer call is
\* made, and after an empty rasterization no summarizer call is made.
C9_StagesGated ==
  /\ (\E k \in CallsOf(AcquireOps) : ~ calls[k].ok) =>
       CallsOf({"extract_pages_as_images", "summarize_page_image",
                "summarize_document_from_pages"}) = {}
  /\ (\E k \in CallsOf({"extract_pages_as_images"}) : calls[k].ret = <<>>) =>
       CallsOf({"summarize_page_image", "summarize_document_from_pages"}) = {}
  /\ CallsOf({"extract_pages_as_images"}) # {} =>
       \E k \in CallsOf(AcquireOps) : calls[k].ok
  /\ CallsOf({"summarize_page_image", "summarize_document_from_pages"}) # {} =>
       \E k \in CallsOf({"extract_pages_as_images"}) : calls[k].ret # <<>>

\* An invocation ended after an export succeeded and rasterization failed.
C9_Witness ==
  /\ pc = "pd_done"
  /\ LastOutcome = "rasterization"
  /\ Len(calls) = 2
  /\ calls[1].op = "export_as_pdf"
  /\ calls[1].ok
  /\ calls[2].ret = <<>>

\* C10: the document summarizer is called after the page summary call of
\* every rasterized page has returned, and receives the summaries returned
\* for pages 1, 2, ... in that order, none missing.
C10_DocumentSummaryAfterAllPages ==
  \A k \in CallsOf({"summarize_document_from_pages"}) :
    /\ Len(calls[k].arg) = Len(image_paths)
    /\ \A p \in 1..Len(image_paths) :
         /\ calls[k].arg[p].page_num = p
         /\ calls[k].arg[p].image_path = image_paths[p]
         /\ \E j \in 1..(k - 1) :
              /\ calls[j].op = "summarize_page_image"
              /\ calls[j].page = p
              /\ calls[j].arg = <<image_paths[p]>>
              /\ calls[j].ret = calls[k].arg[p].summary

\* The document summarizer was called for a three-page document whose pages
\* got different summaries.
C10_Witness ==
  /\ Len(image_paths) = 3
  /\ \E k \in CallsOf({"summarize_document_from_pages"}) :
       /\ calls[k].arg[1].summary = PageSentinel(1)
       /\ calls[k].arg[2].summary = <<"page text">>
       /\ calls[k].arg[3].summary = PageSentinel(3)

\* ------------------------------------------------ claims on DocumentStore
\* A load has ended that began after the last call of process_document had
\* ended, nothing having been written since.
Loaded ==
  /\ load_pc = "loaded"
  /\ pc \in {"pd_done", "raised_doc"}
  /\ load_after = <<pc, idx>>

\* C11: once process_document has persisted and returned a record R, a load
\* of the store from the working root holds under R.doc_id the fields of R
\* (doc_id, file_name, mime_type, total_pages, document_summary and the pages
\* in order, each with page_num and summary) and, as storage location, the
\* subdirectory of R.
C11_PersistThenLoadRoundTrips ==
  (Loaded /\ pc = "pd_done" /\ record # None) =>
    /\ record.doc_id \in DOMAIN documents
    /\ documents[record.doc_id] = WithDirPath(RecordForJson(record), DocSlug)

\* The subdirectories that hold a sidecar file.
SidecarDirs == { s \in DOMAIN fs : fs[s].sidecar.state # "absent" }

\* The sidecars that hold a JSON document with a doc_id.
ValidDirs ==
  { s \in SidecarDirs :
      /\ ~ ParseJson(fs[s].sidecar).raised
      /\ HasDocId(ParseJson(fs[s].sidecar).value) }

StoredId(s) == fs[s].sidecar.content["doc_id"]

\* C12: a load never aborts, and a load from a root that holds one malformed
\* sidecar and N valid sidecars with distinct doc ids yields exactly N
\* records, one for each valid sidecar, wherever the scan meets the malformed
\* one.
C12_MalformedSidecarIsSkipped ==
  /\ load_pc \in {"idle", "scanning", "loaded"}
  /\ ( /\ Loaded
       /\ Cardinality(SidecarDirs \ ValidDirs) = 1
       /\ \A a, b \in ValidDirs : a # b => StoredId(a) # StoredId(b) ) =>
       /\ Cardinality(DOMAIN documents) = Cardinality(ValidDirs)
       /\ \A s \in ValidDirs :
            /\ StoredId(s) \in DOMAIN documents
            /\ documents[StoredId(s)] = WithDirPath(fs[s].sidecar.content, s)

\* A load from a root with a truncated sidecar and two valid ones, one of
\* them just written, gave two records.
C12_Witness ==
  /\ Loaded
  /\ Cardinality(SidecarDirs \ ValidDirs) = 1
  /\ \E o \in observed : o.state = "partial"
  /\ ValidDirs = { <<"p">>, <<"c">> }
  /\ DOMAIN documents = { <<"F0">>, <<"F1">> }

\* The entries of the store that were read from the current document's
\* directory.
LoadedFromHere ==
  { k \in DOMAIN documents : documents[k]["_dir_path"] = DocSlug }

\* C13: when a second call of process_document with the same arguments and
\* the same collaborator results has persisted its record, the sidecar is
\* one JSON document equal to the one the first call left, it parses to the
\* record persisted, and a load reads from that directory one entry at most,
\* equal to the record of the first call.
C13_PersistIsIdempotent ==
  (idx = 2 /\ pc = "pd_done" /\ record # None /\ first.record = record) =>
    /\ Sidecar.state = "complete"
    /\ Sidecar.content = first.sidecar.content
    /\ ParseJson(Sidecar) = Returned(RecordForJson(record))
    /\ Loaded =>
         /\ Cardinality(LoadedFromHere) <= 1
         /\ \A k \in LoadedFromHere :
              /\ k = record.doc_id
              /\ documents[k] = WithDirPath(RecordForJson(first.record), DocSlug)

\* The same record was persisted twice and the store then loaded it.
C13_Witness ==
  /\ idx = 2
  /\ pc = "pd_done"
  /\ record # None
  /\ first.record = record
  /\ first.sidecar.state = "complete"
  /\ Loaded
  /\ LoadedFromHere = { record.doc_id }

\* C14: a load that opens the sidecar of a document while process_document
\* is writing it reads a complete JSON document (the previous one or the new
\* one), never a partly written file.
C14_ReaderNeverSeesPartialSidecar ==
  \A o \in observed :
    (o.dir = DocSlug /\ o.during = "pd_dump") => o.state = "complete"

\* ------------------------------------------------- claims on successive runs
\* C19: whenever a run of build_data_room_index returns, whatever runs came
\* before it on the same output path, the file at output_path holds exactly
\* the text returned, which is the render of the records of this run: one
\* entry for each of them and no entry of any other document.
C19_IndexIsOverwritten ==
  pc = "done" =>
    /\ index_text = IndexText(document_records)
    /\ index_file = [state |-> "complete", content |-> index_text]
    /\ EntryCount(index_file.content) = Len(document_records)
    /\ \A id \in IdSet :
         Contains(index_file.content, EntryBullet(id)) =>
           \E i \in DOMAIN document_records : document_records[i].doc_id = id

\* A second run returned an index without the entry the first run's index
\* had.
C19_Witness ==
  /\ pc = "done"
  /\ run = 2
  /\ index_before.state = "complete"
  /\ Contains(index_before.content, EntryBullet(<<"F1">>))
  /\ document_records # <<>>
  /\ ~ Contains(index_file.content, EntryBullet(<<"F1">>))

\* ------------------------------------------- claims on extract_pages_as_images
\* Characters in the order of their code points.
CodeOrder == <<".", "/">> \o DigitChars

CodePoint(ch) == CHOOSE i \in DOMAIN CodeOrder : CodeOrder[i] = ch

\* Python's str comparison a < b: the code points at the first position
\* where the two differ decide, a proper prefix being the smaller.
LexLess(a, b) ==
  \E k \in 1..(Len(b)) :
    /\ \A j \in 1..(k - 1) : j <= Len(a) /\ a[j] = b[j]
    /\ \/ k = Len(a) + 1
       \/ /\ k <= Len(a)
          /\ a[k] # b[k]
          /\ CodePoint(a[k]) < CodePoint(b[k])

\* C20: a call on a source of one or more pages in which nothing fails
\* returns as many paths as the source has pages, the i-th being the path of
\* page i, each path smaller than the next under string comparison.
C20_PathsCountedAndSorted ==
  (r_pc = "returned" /\ r_images >= 1 /\ r_fail_at = 0) =>
    /\ Len(r_result) = r_images
    /\ \A i \in 1..r_images : r_result[i] = ImagePath(<<"d">>, i)
    /\ \A i \in 1..(r_images - 1) : LexLess(r_result[i], r_result[i + 1])

\* ------------------------------------------------------------------- C21
\* C21: extract_pages_as_images never raises past its own boundary: when
\* the conversion, the directory creation or the save of a page fails, the
\* call returns the empty list, never the list of the pages saved before
\* the failure, although those pages stay on disk.
C21_ExtractFailureReturnsEmpty ==
  /\ r_pc \in {"idle", "called", "returned"}
  /\ r_pc = "returned" =>
       /\ r_fail_at # 0 => r_result = <<>>
       /\ r_fail_at = 0 => Len(r_result) = r_images
       /\ Len(r_result) \in {0, r_images}

C21_Witness ==
  /\ r_pc = "returned"
  /\ r_images = MaxPages
  /\ r_fail_at = MaxPages
  /\ r_files = 1..(MaxPages - 1)
  /\ r_result = <<>>

\* ------------------------------------------------------------------- C22
\* The descriptors the drive holds for the folder, in listing order.
AllListed == [ i \in DOMAIN folder |-> Descriptor(folder[i]) ]

\* C22: list_folder_contents exhausts pagination: the first request carries
\* no token, every later request carries the token of the response before
\* it, a request is made for as long as the last response carries a token
\* and none after the first response without one, and the call returns the
\* files of all pages concatenated in page order.
C22_PaginationIsExhausted ==
  /\ Len(l_requests) <= Len(l_pages)
  /\ \A k \in DOMAIN l_requests :
       l_requests[k] = IF k = 1 THEN <<>>
                       ELSE Response(l_pages, k - 1).nextPageToken
  /\ \A k \in DOMAIN l_requests :
       k > 1 => Response(l_pages, k - 1).nextPageToken # <<>>
  /\ l_pc = "paging" =>
       /\ l_results = Response(l_pages, Len(l_requests))
       /\ l_files = Flatten(SubSeq(l_pages, 1, Len(l_requests)))
  /\ (l_pc = "returned" /\ l_failed = 0) =>
       /\ Len(l_requests) = Len(l_pages)
       /\ files = Flatten(l_pages)
       /\ files = AllListed
       /\ listing = "listed"

C22_Witness ==
  /\ l_pc = "returned"
  /\ l_failed = 0
  /\ Len(l_pages) = MaxListPages
  /\ l_requests = [ k \in 1..MaxListPages |-> IF k = 1 THEN <<>> ELSE <<k>> ]
  /\ Len(l_pages[1]) = 1
  /\ Len(l_pages[MaxListPages]) = 1
  /\ Len(files) = MaxFiles

\* ------------------------------------------------------------------- C23
\* C23: the storage location of a loaded record is the directory of the
\* sidecar it was read from, set anew by every load: a "_dir_path" held in
\* the sidecar is not used, every other field is the sidecar's, and a
\* sidecar written by process_document holds no "_dir_path" and no
\* "image_path".
C23_LocationIsRecomputed ==
  /\ \A k \in DOMAIN documents :
       LET s == documents[k]["_dir_path"] IN
         /\ s \in DOMAIN fs
         /\ s \notin pending
         /\ fs[s].sidecar.state = "complete"
         /\ fs[s].sidecar.content["doc_id"] = k
         /\ DOMAIN documents[k] =
              DOMAIN fs[s].sidecar.content \cup {"_dir_path"}
         /\ \A key \in DOMAIN fs[s].sidecar.content \ {"_dir_path"} :
              documents[k][key] = fs[s].sidecar.content[key]
  /\ \A s \in DOMAIN fs :
       (fs[s].sidecar.state = "complete" /\ fs[s].sidecar.writer # 0) =>
         /\ "_dir_path" \notin DOMAIN fs[s].sidecar.content
         /\ \A i \in DOMAIN fs[s].sidecar.content.pages :
              DOMAIN fs[s].sidecar.content.pages[i] = {"page_num", "summary"}

C23_Witness ==
  /\ load_pc = "loaded"
  /\ <<"p">> \in DOMAIN fs
  /\ "_dir_path" \in DOMAIN fs[<<"p">>].sidecar.content
  /\ fs[<<"p">>].sidecar.content["_dir_path"] = <<"x">>
  /\ <<"F0">> \in DOMAIN documents
  /\ documents[<<"F0">>]["_dir_path"] = <<"p">>
  /\ <<"F1">> \in DOMAIN documents
  /\ documents[<<"F1">>]["_dir_path"] = <<"c">>
  /\ fs[<<"c">>].sidecar.writer # 0

\* ------------------------------------------------------------------- C24
\* C24: acquisition is dispatched on the mime type: for application/pdf
\* process_document calls download_file and never export_as_pdf; for the
\* three Google Workspace types it calls export_as_pdf and never
\* download_file; for any other type it calls no collaborator at all and
\* returns no record.
C24_DispatchByMimeType ==
  LET acquired == pc \notin {"pd_enter", "pd_acquire"} IN
  /\ doc.mime_type = "application/pdf" =>
       /\ CallsOf({"export_as_pdf"}) = {}
       /\ acquired => (calls # <<>> /\ calls[1].op = "download_file")
  /\ doc.mime_type \in { "application/vnd.google-apps.document",
                         "application/vnd.google-apps.spreadsheet",
                         "application/vnd.google-apps.presentation" } =>
       /\ CallsOf({"download_file"}) = {}
       /\ acquired => (calls # <<>> /\ calls[1].op = "export_as_pdf")
  /\ doc.mime_type \notin { "application/pdf",
                            "application/vnd.google-apps.document",
                            "application/vnd.google-apps.spreadsheet",
                            "application/vnd.google-apps.presentation" } =>
       /\ calls = <<>>
       /\ acquired => (pc = "pd_done" /\ record = None
                         /\ LastOutcome = "unsupported")

\* A presentation was exported and processed to the end.
C24_Witness ==
  /\ pc = "pd_done"
  /\ doc.mime_type = "application/vnd.google-apps.presentation"
  /\ LastOutcome = "ok"
  /\ calls[1].op = "export_as_pdf"
  /\ CallsOf({"download_file"}) = {}

\* ------------------------------------------------------------------- C25
RECURSIVE LastBinding(_)
\* What the events of a log leave bound: the store of the last completed
\* initialize call, unless a reset came after it; a call that raised binds
\* nothing.
LastBinding(log) ==
  IF log = <<>> THEN None
  ELSE LET e == log[Len(log)] IN
       IF e.ev = "initialize" THEN e.store
       ELSE IF e.ev = "unset" THEN None
       ELSE LastBinding(SubSeq(log, 1, Len(log) - 1))

\* C25: get_document_store raises when no initialize_document_store call
\* has completed since the global was last unset, and otherwise returns the
\* store built by the most recent completed initialize_document_store call;
\* the get_document tool does not raise in the uninitialized state but
\* returns an error string.
C25_ProcessWideStore ==
  /\ g_store = LastBinding(g_log)
  /\ t_call.op = "get_document_store" =>
       IF LastBinding(g_log) = None
       THEN t_result.raised
       ELSE /\ ~ t_result.raised
            /\ t_result.value = LastBinding(g_log)
  /\ (t_call.op = "get_document" /\ LastBinding(g_log) = None) =>
       /\ ~ t_result.raised
       /\ SubSeq(t_result.value, 1, 2) =
            <<"Error retrieving document ">> \o t_call.doc_id

\* The store was initialized twice and get_document_store returned the
\* second store.
C25_Witness ==
  /\ t_call.op = "get_document_store"
  /\ Len(g_log) = 2
  /\ g_log[1].ev = "initialize"
  /\ g_log[2].ev = "initialize"
  /\ ~ t_result.raised
  /\ t_result.value.built = 2
  /\ t_result.value # g_log[1].store

\* ------------------------------------------------------------------- C26
\* The last call was get_document_pages and it reached its page loop.
PagesLoopReached ==
  /\ t_call.op = "get_document_pages"
  /\ t_call.doc_id \in DOMAIN g_store.documents
  /\ g_store.documents[t_call.doc_id]["_dir_path"] \in DOMAIN fs
  /\ fs[g_store.documents[t_call.doc_id]["_dir_path"]].pages_dir

\* C26: get_document_pages handles each requested page on its own: the
\* result has one part for each requested page, in the order requested; the
\* part of a page whose image file is missing is "Page n: Not found" and
\* the parts of the pages after it are still produced; the call returns and
\* does not raise.
C26_PagesHandledIndependently ==
  /\ t_call.op = "get_document_pages" =>
       /\ ~ t_result.raised
       /\ t_result.value = Join(<<"\n">>, t_parts)
  /\ PagesLoopReached =>
       LET dir == fs[g_store.documents[t_call.doc_id]["_dir_path"]]
           page_nums == t_call.page_nums
       IN /\ Len(t_parts) = 2 + Len(page_nums)
          /\ \A i \in DOMAIN page_nums :
               LET part == t_parts[2 + i] IN
               /\ SubSeq(part, 1, 3)
                    = <<"\n", "Page ">> \o Digits(page_nums[i])
               /\ page_nums[i] \notin dir.images <=>
                    part = <<"\n", "Page ">> \o Digits(page_nums[i])
                             \o <<": Not found">>

\* Page 2 is missing, page 1 is there: both were asked for, the missing one
\* first.
C26_Witness ==
  /\ PagesLoopReached
  /\ t_call.page_nums = <<2, 1>>
  /\ t_call.unreadable = {}
  /\ fs[<<"c">>].images = {1}
  /\ t_parts[3] = <<"\n", "Page ", "2", ": Not found">>
  /\ t_parts[4][4] = ":"
  /\ SubSeq(t_parts[4], 6, 8) = <<"Summary: ", "page text ", "1">>

\* ------------------------------------------------------------------- C27
\* C27: after build_data_room_index has returned, a store loaded from the
\* working root holds a record for every doc id that has an entry in the
\* returned index, with the file name and the document summary of that
\* entry, whatever the listing (names that differ only in spaces, slashes or
\* underscores included).
C27_IndexAndStoreAgree ==
  (pc = "done" /\ load_pc = "loaded" /\ IndexSaved) =>
    \A i \in DOMAIN document_records :
      /\ document_records[i].doc_id \in DOMAIN documents
      /\ documents[document_records[i].doc_id].file_name
           = document_records[i].file_name
      /\ documents[document_records[i].doc_id].document_summary
           = document_records[i].document_summary

\* ------------------------------------------------------------------- C28
\* The calls of the document summarizer, by the current invocation, whose
\* request failed.
FailedDocCalls ==
  { k \in CallsOf({"summarize_document_from_pages"}) : ~ calls[k].ok }

DocSentinel(file_name) == <<"Error summarizing document ">> \o file_name

\* C28: a failure of the document summarizer does not fail the document:
\* the summarizer returns the sentinel text instead of raising,
\* process_document persists the record with that text as its summary and
\* returns it, the loop collects the record and the index lists the
\* document with the sentinel text as its summary.
C28_DocumentSummaryFailureIsNotFatal ==
  FailedDocCalls # {} =>
    /\ \A k \in FailedDocCalls : calls[k].ret = DocSentinel(doc.file_name)
    /\ pc \in {"pd_open", "pd_dump"} =>
         document_summary = DocSentinel(doc.file_name)
    /\ pc = "raised_doc" => LastOutcome = "persistence"
    /\ pc \in {"pd_done", "loop", "render", "done", "raised_index"} =>
         /\ LastOutcome = "ok"
         /\ record # None
         /\ record.doc_id = doc.file_id
         /\ record.document_summary = DocSentinel(doc.file_name)
         /\ Sidecar = [ state |-> "complete", writer |-> idx,
                        content |-> RecordForJson(record) ]
    /\ pc \in {"loop", "render", "done", "raised_index"} =>
         /\ document_records # <<>>
         /\ document_records[Len(document_records)] = record
    /\ pc = "done" =>
         Contains(index_text,
                  EntryBullet(doc.file_id) \o doc.file_name
                    \o <<"\n", "  Summary: ">> \o DocSentinel(doc.file_name)
                    \o <<"\n">>)

\* A run of two documents has ended; the document summary of the second one
\* had failed and the index lists both.
C28_Witness ==
  /\ pc = "done"
  /\ Len(files) = 2
  /\ FailedDocCalls # {}
  /\ EntryCount(index_text) = 2
  /\ document_records[1].document_summary = <<"document text">>
  /\ document_records[2].document_summary = DocSentinel(files[2].name)
  /\ IndexSaved

\* ------------------------------------------------------------------- C29
\* C29: the folder listing is all or nothing: when the request for a page of
\* the listing fails, the first or a later one, list_folder_contents
\* returns the empty list, with none of the files of the pages before, and
\* does not raise; build_data_room_index then passes no descriptor to
\* process_document and the index it writes is the header alone.
C29_ListingIsAllOrNothing ==
  /\ l_pc \in {"idle", "paging", "returned"}
  /\ l_failed # 0 =>
       /\ l_pc = "returned"
       /\ l_failed = Len(l_requests)
       /\ listing = "failed"
       /\ files = <<>>
       /\ passed = <<>>
       /\ calls = <<>>
       /\ fs = <<>>
       /\ document_records = <<>>
       /\ pc \in {"loop", "render", "done", "raised_index"}
       /\ pc = "done" =>
            /\ index_text = <<"# Data Room Index", "\n">>
            /\ index_file = [ state |-> "complete",
                              content |-> <<"# Data Room Index", "\n">> ]

\* The request for the last page failed after the pages before it had
\* brought every file of the folder; the run ended with the header alone.
C29_Witness ==
  /\ l_failed = MaxListPages
  /\ Len(folder) = MaxFiles
  /\ l_files = AllListed
  /\ files = <<>>
  /\ pc = "done"
  /\ index_file.state = "complete"
  /\ EntryCount(index_file.content) = 0

\* ------------------------------------------------------------------- C30
\* C30: indexing_in_progress is set at the start of run_indexing and is
\* false again whenever run_indexing has ended, on every way out (the
\* indexer could not be constructed, the build or the save raised, success,
\* a raise outside the inner try statements), so that the start button is
\* never rendered disabled after a run.
C30_FlagIsResetOnEveryExit ==
  /\ w_pc \in {"setup", "init", "build", "save"} =>
       indexing_in_progress = <<TRUE>>
  /\ w_pc \in {"unrendered", "idle", "run_indexing"} =>
       /\ indexing_in_progress \in { <<>>, <<FALSE>> }
       /\ w_exits # <<>> => indexing_in_progress = <<FALSE>>
  /\ w_disabled = FALSE

\* Two runs have ended, the first with a failed build and the second with
\* success, and the page was rendered again.
C30_Witness ==
  /\ w_pc = "idle"
  /\ w_exits = <<"build_failed", "success">>
  /\ indexing_in_progress = <<FALSE>>
  /\ w_index_file
  /\ ~ w_disabled

====
